---------------------------- MODULE Spec2Model ----------------------------
(***************************************************************************)
(* Model of the eBus protocol engine of ebus-thelia-condens-ha:            *)
(*   ebus_core/crc.py       EbusCRC (CRC-8, polynomial 0x9B)               *)
(*   ebus_core/telegram.py  EscapeHandler, EbusTelegram, TelegramParser    *)
(*   thelia/messages.py     FieldDefinition, MessageDefinition, registry   *)
(*   thelia/parser.py       TheliaParser, DataAggregator                   *)
(*   thelia/alerts.py       AlertManager                                   *)
(*   src/ebus_codec.py      destuff                                        *)
(*   tests/test_live.py     the alert check of the live monitor            *)
(*                                                                         *)
(* Bytes are the integers 0..255, a bytes/bytearray object is a sequence   *)
(* of them (1-based here, 0-based in the source).  An Optional value is a  *)
(* sequence of length at most one: None is << >> and a present value x is  *)
(* << x >>.  The telegram's timestamp (the wall clock at parse time) is    *)
(* not part of the record.                                                 *)
(***************************************************************************)
EXTENDS Integers, Sequences, FiniteSets, TLC

VARIABLES
    wire,       \* the bytes the bus delivers, in order (environment)
    pos,        \* how many bytes of wire the transport has pushed into feed
    buffer,     \* TelegramParser._buffer
    ret,        \* the list returned by the last feed call
    out,        \* every telegram returned so far, with the stream position
                \* of the delimiter that closed its frame (history)
    trimmed,    \* whether the overflow guard has discarded bytes (history)
    payload,    \* bytes of one frame before escaping (environment)
    raw_data,   \* the frame as a caller hands it to parse or, between two
                \* delimiters, to feed
    parsed,     \* result of the direct TelegramParser.parse call
    pc,         \* position of that caller: "call", "parsed" or "fed"
    bytes_in,   \* a byte sequence handed to EscapeHandler and EbusCRC
    escape_out,         \* what escape(bytes_in) returned, None before
    unescape_out,       \* what unescape(bytes_in) returned, None before
    round_trip,         \* what unescape(escape(bytes_in)) returned
    calculate_out,      \* what calculate(bytes_in) returned
    calculate_alt_out,  \* what calculate_alt(bytes_in) returned
    destuff_out,        \* what ebus_codec.destuff(bytes_in) returned
    field_def,  \* a FieldDefinition whose decode is called
    field_data, \* the bytes handed to that decode
    decoded,    \* what decode returned, wrapped: None before the call,
                \* Some(None) for the return value None, Some(Some(v))
    stats,      \* TheliaParser.stats
    callbacks,  \* TheliaParser._callbacks: "ok" or "raises" for each
    handed,     \* the telegram of the last TheliaParser.parse call
    message,    \* the ParsedMessage that call returned, None if it raised
    raised,     \* the exception that call raised, None if it returned
    notified,   \* the callbacks that call invoked, in order (history)
    now,        \* the wall clock, datetime.now(), in whole seconds
    op,         \* the last operation of DataAggregator or AlertManager
    calls,      \* how many update or check calls were made (history)
    max_age,    \* DataAggregator.max_age
    sensors,    \* DataAggregator._sensors
    updated,    \* the message and timestamp of the last update call
    replaced,   \* DataAggregator._sensors before that call (history)
    got,        \* the get_sensor or get_all_sensors call that has just
                \* returned: its name argument and its result
    alert_callbacks,   \* AlertManager._callbacks: "ok" or "raises" for each
    active_alerts,     \* AlertManager._active_alerts
    alert_history,     \* AlertManager._alert_history
    last_alert_time,   \* AlertManager._last_alert_time
    checked,           \* the sensors of the last check_sensors call
    new_alerts,        \* the list that call returned
    alert_notified,    \* the callbacks that call invoked, in order
    stale_alerts,      \* the list the last check_sensor_staleness returned
    fault_alert,       \* the last check_fault_code call: its status_code
                       \* and what it returned
    order,      \* the keys of DataAggregator._sensors in insertion order,
                \* kept while two threads share the aggregator
    writer,     \* the update call under way on the ingestion thread: the
                \* _set_sensor calls it has still to make
    reader,     \* the get_all_sensors call under way on the other thread:
                \* its dict iterator and the result built so far
    committed   \* _sensors as every update call so far found and left it
                \* (history)

frame_vars ==
    << wire, pos, buffer, ret, out, trimmed, payload, raw_data, parsed, pc >>

codec_vars ==
    << bytes_in, escape_out, unescape_out, round_trip, calculate_out,
       calculate_alt_out, destuff_out >>

field_vars == << field_def, field_data, decoded >>

thelia_vars == << stats, callbacks, handed, message, raised, notified >>

aggregator_vars ==
    << max_age, sensors, updated, replaced, got >>

alert_vars ==
    << alert_callbacks, active_alerts, alert_history, last_alert_time,
       checked, new_alerts, alert_notified, stale_alerts, fault_alert >>

thread_vars == << order, writer, reader, committed >>

sink_vars == << now, op, calls, aggregator_vars, alert_vars, thread_vars >>

vars == << frame_vars, codec_vars, field_vars, thelia_vars, sink_vars >>

-----------------------------------------------------------------------------
(* Optional values *)

None == << >>

Some(x) == << x >>

-----------------------------------------------------------------------------
(* Program constants *)

POLYNOMIAL == 155

ESCAPE == 169

SYNC == 170

ESCAPE_ESCAPE == 0

ESCAPE_SYNC == 1

BROADCAST_ADDR == 254

ACK == 0

NAK == 255

SYNC_BYTE == 170

MIN_TELEGRAM_LENGTH == 6

MaxBuffer == 512

TrimTo == 256

-----------------------------------------------------------------------------
(* Bit operations on bytes *)

RECURSIVE XorBits(_, _, _)
XorBits(a, b, n) ==
    IF n = 0 THEN 0
    ELSE (((a % 2) + (b % 2)) % 2) + 2 * XorBits(a \div 2, b \div 2, n - 1)

(* a ^ b for two bytes, tabulated once. *)
XorTable == [a \in 0..255 |-> [b \in 0..255 |-> XorBits(a, b, 8)]]

Xor(a, b) == XorTable[a][b]

(* One of the eight iterations of the CRC register: lines 28-31 / 56-59. *)
CrcShift(crc) ==
    IF crc >= 128 THEN Xor((crc * 2) % 256, POLYNOMIAL)
    ELSE (crc * 2) % 256

RECURSIVE CrcShiftN(_, _)
CrcShiftN(crc, n) == IF n = 0 THEN crc ELSE CrcShiftN(CrcShift(crc), n - 1)

(* The table built with seven shifts per entry. *)
InitTableSevenShifts == [byte \in 0..255 |-> CrcShiftN(byte, 7)]

(* EbusCRC._init_table: the 256-entry lookup table. *)
init_table == [byte \in 0..255 |-> CrcShiftN(byte, 8)]

(* Line 43, the body of calculate's loop: crc = table[crc ^ byte]. *)
CalcStep(crc, byte) == init_table[Xor(crc, byte)]

(* The loop of lines 42-43 over data[lo..hi] (1-based, inclusive).  The   *)
(* range is halved and the first half evaluated before the second (the    *)
(* test on half), so that long inputs need no deep recursion.             *)
RECURSIVE CalcRange(_, _, _, _)
CalcRange(data, lo, hi, crc) ==
    IF lo > hi THEN crc
    ELSE IF lo = hi THEN CalcStep(crc, data[lo])
    ELSE LET mid == (lo + hi) \div 2
             half == CalcRange(data, lo, mid, crc)
         IN  IF half >= 0 THEN CalcRange(data, mid + 1, hi, half) ELSE half

(* EbusCRC.calculate *)
calculate(data) == CalcRange(data, 1, Len(data), 0)

(* Lines 54-59, the body of calculate_alt's loop: crc ^= byte, then the    *)
(* eight shifts.                                                           *)
AltStep(crc, byte) == CrcShiftN(Xor(crc, byte), 8)

(* The loop of lines 53-59 over data[lo..hi], halved as CalcRange is. *)
RECURSIVE AltRange(_, _, _, _)
AltRange(data, lo, hi, crc) ==
    IF lo > hi THEN crc
    ELSE IF lo = hi THEN AltStep(crc, data[lo])
    ELSE LET mid == (lo + hi) \div 2
             half == AltRange(data, lo, mid, crc)
         IN  IF half >= 0 THEN AltRange(data, mid + 1, hi, half) ELSE half

(* EbusCRC.calculate_alt *)
calculate_alt(data) == AltRange(data, 1, Len(data), 0)

-----------------------------------------------------------------------------
(* EscapeHandler *)

(* Lines 38-51, one iteration of unescape's while loop on the loop state  *)
(* st = [i, result], i being the 0-based index of the source.             *)
(* An unrecognised escape dropped together with the byte after it. *)
UnescapeStepDropping(data, st) ==
    IF ~(st.i < Len(data)) THEN st
    ELSE IF data[st.i + 1] = ESCAPE /\ st.i + 1 < Len(data)
         THEN IF data[st.i + 2] = ESCAPE_ESCAPE
                 THEN [i |-> st.i + 2, result |-> Append(st.result, ESCAPE)]
              ELSE IF data[st.i + 2] = ESCAPE_SYNC
                 THEN [i |-> st.i + 2, result |-> Append(st.result, SYNC)]
              ELSE [i |-> st.i + 2, result |-> st.result]
         ELSE [i |-> st.i + 1, result |-> Append(st.result, data[st.i + 1])]

UnescapeStep(data, st) ==
    IF ~(st.i < Len(data)) THEN st
    ELSE IF data[st.i + 1] = ESCAPE /\ st.i + 1 < Len(data)
         THEN IF data[st.i + 2] = ESCAPE_ESCAPE
                 THEN [i |-> st.i + 2, result |-> Append(st.result, ESCAPE)]
              ELSE IF data[st.i + 2] = ESCAPE_SYNC
                 THEN [i |-> st.i + 2, result |-> Append(st.result, SYNC)]
              ELSE [i |-> st.i + 1, result |-> Append(st.result, data[st.i + 1])]
         ELSE [i |-> st.i + 1, result |-> Append(st.result, data[st.i + 1])]

(* n iterations of the loop: the count is halved and the first half       *)
(* evaluated before the second (the test on half).                        *)
RECURSIVE UnescapeRun(_, _, _)
UnescapeRun(data, st, n) ==
    IF n = 0 THEN st
    ELSE IF n = 1 THEN UnescapeStep(data, st)
    ELSE LET half == UnescapeRun(data, st, n \div 2)
         IN  IF half.i >= 0 THEN UnescapeRun(data, half, n - (n \div 2))
             ELSE half

(* EscapeHandler.unescape: the loop ends within Len(data) iterations. *)
unescape(data) == UnescapeRun(data, [i |-> 0, result |-> << >>], Len(data)).result

(* Only the delimiter escaped, the escape byte sent as it is. *)
EscapeByteSyncOnly(byte) ==
    IF byte = SYNC THEN << ESCAPE, ESCAPE_SYNC >> ELSE << byte >>

(* Lines 59-64: what escape appends for one byte. *)
EscapeByte(byte) ==
    IF byte = ESCAPE THEN << ESCAPE, ESCAPE_ESCAPE >>
    ELSE IF byte = SYNC THEN << ESCAPE, ESCAPE_SYNC >>
    ELSE << byte >>

(* The for loop of lines 58-64 over data[lo..hi]. *)
RECURSIVE EscapeRange(_, _, _)
EscapeRange(data, lo, hi) ==
    IF lo > hi THEN << >>
    ELSE IF lo = hi THEN EscapeByte(data[lo])
    ELSE LET mid == (lo + hi) \div 2
         IN  EscapeRange(data, lo, mid) \o EscapeRange(data, mid + 1, hi)

(* The bytes sent as they are. *)
EscapeNothing(data) == data

(* EscapeHandler.escape *)
escape(data) == EscapeRange(data, 1, Len(data))

-----------------------------------------------------------------------------
(* src/ebus_codec.py: destuff *)

(* Lines 21-32, the body of the for loop for the 0-based index i on the    *)
(* loop state st = [skip_next, destuffed].                                 *)
DestuffStep(raw_buffer, st, i) ==
    IF st.skip_next THEN [st EXCEPT !.skip_next = FALSE]
    ELSE IF raw_buffer[i + 1] = 169
         THEN IF i + 1 < Len(raw_buffer)
              THEN IF raw_buffer[i + 2] = 0
                   THEN [skip_next |-> TRUE,
                         destuffed |-> Append(st.destuffed, 169)]
                   ELSE IF raw_buffer[i + 2] = 1
                   THEN [skip_next |-> TRUE,
                         destuffed |-> Append(st.destuffed, 170)]
                   ELSE [st EXCEPT !.skip_next = TRUE]
              ELSE st
         ELSE [st EXCEPT !.destuffed = Append(st.destuffed, raw_buffer[i + 1])]

(* The loop of line 21 over the indices 0..n-1. *)
RECURSIVE DestuffRun(_, _)
DestuffRun(raw_buffer, n) ==
    IF n = 0 THEN [skip_next |-> FALSE, destuffed |-> << >>]
    ELSE DestuffStep(raw_buffer, DestuffRun(raw_buffer, n - 1), n - 1)

(* destuff: the list returned, as a byte sequence. *)
destuff(raw_buffer) == DestuffRun(raw_buffer, Len(raw_buffer)).destuffed

-----------------------------------------------------------------------------
(* EbusTelegram and TelegramParser.parse *)

(* Bytes data[from:] of a 1-based sequence, from being the 0-based index. *)
SliceFrom(data, from) == SubSeq(data, from + 1, Len(data))

(* Bytes data[from:to] (0-based, to excluded). *)
Slice(data, from, to) ==
    SubSeq(data, from + 1, IF to <= Len(data) THEN to ELSE Len(data))

(* The dataclass as constructed at lines 225-232, defaults included. *)
EbusTelegram(data, raw) ==
    [ source            |-> data[1],
      destination       |-> data[2],
      primary_command   |-> data[3],
      secondary_command |-> data[4],
      data              |-> << >>,
      crc               |-> 0,
      slave_ack         |-> None,
      response_data     |-> None,
      response_crc      |-> None,
      master_ack        |-> None,
      telegram_type     |-> "BROADCAST",
      valid             |-> FALSE,
      crc_valid         |-> FALSE,
      raw_bytes         |-> raw ]

(* Lines 307-309: a response checksum mismatch marks the telegram invalid. *)
ResponseCrcMark(telegram, expected_crc) ==
    IF telegram.response_crc # Some(expected_crc)
    THEN [telegram EXCEPT !.valid = FALSE]
    ELSE telegram

(* Lines 311-313: the byte after the response checksum, if any. *)
MasterAck(data, response_len) ==
    IF Len(data) > 2 + response_len + 1
    THEN Some(data[2 + response_len + 1 + 1])
    ELSE None

(* Line 297: the response is truncated. *)
ResponseTruncated(data, response_len) == Len(data) < 2 + response_len + 1

(* The handshake byte stored and never compared with ACK. *)
ParseSlaveResponseAnyHandshake(telegram, data) ==
    IF Len(data) < 1 THEN telegram
    ELSE LET t1 == [telegram EXCEPT !.slave_ack = Some(data[1])]
         IN  IF Len(data) < 2 THEN t1
             ELSE LET response_len == data[2]
                  IN  IF ResponseTruncated(data, response_len) THEN t1
                      ELSE LET t2 == [t1 EXCEPT
                                        !.response_data =
                                            Some(Slice(data, 2, 2 + response_len)),
                                        !.response_crc =
                                            Some(data[2 + response_len + 1])]
                               expected_crc ==
                                   calculate(<< data[2] >> \o t2.response_data[1])
                               t3 == ResponseCrcMark(t2, expected_crc)
                           IN  [t3 EXCEPT
                                  !.master_ack = MasterAck(data, response_len)]

(* TelegramParser._parse_slave_response: the telegram as it leaves the call. *)
parse_slave_response(telegram, data) ==
    IF Len(data) < 1 THEN telegram
    ELSE LET t1 == [telegram EXCEPT !.slave_ack = Some(data[1])]
         IN  IF data[1] # ACK THEN t1
             ELSE IF Len(data) < 2 THEN t1
             ELSE LET response_len == data[2]
                  IN  IF ResponseTruncated(data, response_len) THEN t1
                      ELSE LET t2 == [t1 EXCEPT
                                        !.response_data =
                                            Some(Slice(data, 2, 2 + response_len)),
                                        !.response_crc =
                                            Some(data[2 + response_len + 1])]
                               expected_crc ==
                                   calculate(<< data[2] >> \o t2.response_data[1])
                               t3 == ResponseCrcMark(t2, expected_crc)
                           IN  [t3 EXCEPT
                                  !.master_ack = MasterAck(data, response_len)]

(* The minimum length taken as exclusive. *)
TooShortInclusive(data) == Len(data) <= MIN_TELEGRAM_LENGTH

(* Line 221 *)
TooShort(data) == Len(data) < MIN_TELEGRAM_LENGTH

(* Lines 238-239 *)
Incomplete(data, data_length) == Len(data) < 5 + data_length + 1

(* The bytes after the CRC looked at before the destination. *)
ClassifyTrailingFirst(telegram, data, crc_pos) ==
    IF Len(SliceFrom(data, crc_pos + 1)) > 0
    THEN parse_slave_response(
             [telegram EXCEPT !.telegram_type = "MASTER_SLAVE"],
             SliceFrom(data, crc_pos + 1))
    ELSE IF telegram.destination = BROADCAST_ADDR
         THEN [telegram EXCEPT !.telegram_type = "BROADCAST"]
         ELSE [telegram EXCEPT !.telegram_type = "MASTER_MASTER"]

(* Lines 263-273: the kind, and the slave part when bytes follow the CRC. *)
Classify(telegram, data, crc_pos) ==
    IF telegram.destination = BROADCAST_ADDR
    THEN [telegram EXCEPT !.telegram_type = "BROADCAST"]
    ELSE LET remaining == SliceFrom(data, crc_pos + 1)
         IN  IF Len(remaining) > 0
             THEN parse_slave_response(
                      [telegram EXCEPT !.telegram_type = "MASTER_SLAVE"],
                      remaining)
             ELSE [telegram EXCEPT !.telegram_type = "MASTER_MASTER"]

(* Line 275: the final assignment of valid. *)
FinalValid(telegram) == [telegram EXCEPT !.valid = telegram.crc_valid]

(* The checksum computed over the frame from its second byte. *)
MasterCrcFromSecond(telegram, data, crc_pos) ==
    [telegram EXCEPT
       !.crc = data[crc_pos + 1],
       !.crc_valid = (data[crc_pos + 1] = calculate(Slice(data, 1, crc_pos)))]

(* The checksum read and never compared. *)
MasterCrcLenient(telegram, data, crc_pos) ==
    [telegram EXCEPT !.crc = data[crc_pos + 1], !.crc_valid = TRUE]

(* Lines 248-255: the master checksum and its verdict. *)
MasterCrc(telegram, data, crc_pos) ==
    [telegram EXCEPT
       !.crc = data[crc_pos + 1],
       !.crc_valid = (data[crc_pos + 1] = calculate(Slice(data, 0, crc_pos)))]

(* Lines 221-276 of parse, data being the unescaped frame. *)
ParseData(data, raw) ==
    IF TooShort(data) THEN None
    ELSE LET data_length == data[5]
         IN  IF Incomplete(data, data_length) THEN None
             ELSE LET crc_pos == 5 + data_length
                      t0 == [EbusTelegram(data, raw) EXCEPT
                               !.data = Slice(data, 5, 5 + data_length)]
                      t1 == MasterCrc(t0, data, crc_pos)
                      t2 == Classify(t1, data, crc_pos)
                  IN  Some(FinalValid(t2))

(* TelegramParser.parse: None or Some(telegram).  No statement of the try *)
(* block can raise on a sequence of bytes, so the except arm is dead.     *)
parse(raw) == ParseData(unescape(raw), raw)

-----------------------------------------------------------------------------
(* TelegramParser.feed / _extract_telegrams *)

(* Lines 177-178: how many leading SYNC bytes the inner while loop pops. *)
LeadingSync(buf) ==
    IF \A i \in 1..Len(buf) : buf[i] = SYNC_BYTE THEN Len(buf)
    ELSE (CHOOSE i \in 1..Len(buf) :
              /\ buf[i] # SYNC_BYTE
              /\ \A j \in 1..(i - 1) : buf[j] = SYNC_BYTE) - 1

(* bytearray.index(SYNC_BYTE) of line 185: the 0-based index of the first *)
(* SYNC byte, -1 standing for the ValueError.                             *)
IndexSync(buf) ==
    IF \A i \in 1..Len(buf) : buf[i] # SYNC_BYTE THEN -1
    ELSE (CHOOSE i \in 1..Len(buf) :
              /\ buf[i] = SYNC_BYTE
              /\ \A j \in 1..(i - 1) : buf[j] # SYNC_BYTE) - 1

(* The guard with the size of the kept tail taken for the ceiling. *)
OverflowAtTail(buf) == Len(buf) > TrimTo

(* Line 189: the overflow guard's test. *)
Overflow(buf) == Len(buf) > MaxBuffer

(* The oldest bytes kept instead of the newest. *)
KeepHead(buf) ==
    IF Len(buf) <= TrimTo THEN buf
    ELSE SubSeq(buf, 1, TrimTo)

(* Line 190: self._buffer[-256:] *)
KeepTail(buf) ==
    IF Len(buf) <= TrimTo THEN buf
    ELSE SubSeq(buf, Len(buf) - TrimTo + 1, Len(buf))

(* The telegram put at the front of the list. *)
PrependTelegram(telegrams, telegram, closing) ==
    IF telegram # None
    THEN << [telegram |-> telegram[1], closing |-> closing] >> \o telegrams
    ELSE telegrams

(* Lines 197-199: the telegram, if any, joins the end of the list.  Each  *)
(* entry also records closing, the 1-based index, in the buffer as it was *)
(* when the call began, of the SYNC byte that closed the frame.           *)
AppendTelegram(telegrams, telegram, closing) ==
    IF telegram # None
    THEN Append(telegrams, [telegram |-> telegram[1], closing |-> closing])
    ELSE telegrams

(* The while True loop of lines 175-199: ExtractLoop is one iteration     *)
(* from its top, ExtractStripped the same after the leading SYNC bytes    *)
(* are gone, ExtractAt the same once index has answered.  off counts the  *)
(* bytes already removed from the front of the buffer.                    *)
RECURSIVE ExtractLoop(_, _, _)
(* The rest of the buffer given up after a frame that does not parse. *)
ExtractAtDrop(b1, sync_pos, telegrams, off) ==
    IF sync_pos = -1
    THEN IF Overflow(b1)
         THEN [buffer |-> KeepTail(b1), telegrams |-> telegrams, trimmed |-> TRUE]
         ELSE [buffer |-> b1, telegrams |-> telegrams, trimmed |-> FALSE]
    ELSE IF sync_pos > 0
         THEN IF parse(Slice(b1, 0, sync_pos)) = None
              THEN [buffer |-> << >>, telegrams |-> telegrams, trimmed |-> FALSE]
              ELSE ExtractLoop(SliceFrom(b1, sync_pos),
                               AppendTelegram(telegrams,
                                              parse(Slice(b1, 0, sync_pos)),
                                              off + sync_pos + 1),
                               off + sync_pos)
         ELSE ExtractLoop(b1, telegrams, off)

ExtractAt(b1, sync_pos, telegrams, off) ==
    IF sync_pos = -1
    THEN IF Overflow(b1)
         THEN [buffer |-> KeepTail(b1), telegrams |-> telegrams, trimmed |-> TRUE]
         ELSE [buffer |-> b1, telegrams |-> telegrams, trimmed |-> FALSE]
    ELSE IF sync_pos > 0
         THEN ExtractLoop(SliceFrom(b1, sync_pos),
                          AppendTelegram(telegrams,
                                         parse(Slice(b1, 0, sync_pos)),
                                         off + sync_pos + 1),
                          off + sync_pos)
         ELSE ExtractLoop(b1, telegrams, off)

(* The search for the next SYNC byte left out. *)
ExtractStrippedUnsearched(b1, telegrams, off) ==
    IF Len(b1) = 0
    THEN [buffer |-> b1, telegrams |-> telegrams, trimmed |-> FALSE]
    ELSE ExtractAt(b1, -1, telegrams, off)

ExtractStripped(b1, telegrams, off) ==
    IF Len(b1) = 0
    THEN [buffer |-> b1, telegrams |-> telegrams, trimmed |-> FALSE]
    ELSE ExtractAt(b1, IndexSync(b1), telegrams, off)

ExtractSkip(buf, k, telegrams, off) ==
    ExtractStripped(SliceFrom(buf, k), telegrams, off + k)

ExtractLoop(buf, telegrams, off) ==
    ExtractSkip(buf, LeadingSync(buf), telegrams, off)

(* TelegramParser._extract_telegrams on a buffer *)
extract_telegrams(buf) == ExtractLoop(buf, << >>, 0)

(* Lines 175-195: the frame candidates _extract_telegrams cuts from a      *)
(* buffer, each being the raw_telegram of line 193 it hands to parse.      *)
RECURSIVE raw_telegrams(_)
raw_telegrams(buf) ==
    IF Len(SliceFrom(buf, LeadingSync(buf))) = 0 THEN << >>
    ELSE IF IndexSync(SliceFrom(buf, LeadingSync(buf))) = -1 THEN << >>
    ELSE << Slice(SliceFrom(buf, LeadingSync(buf)), 0,
                  IndexSync(SliceFrom(buf, LeadingSync(buf)))) >>
         \o raw_telegrams(
                SliceFrom(SliceFrom(buf, LeadingSync(buf)),
                          IndexSync(SliceFrom(buf, LeadingSync(buf)))))

(* The telegrams of a list of entries, as feed returns them. *)
Telegrams(entries) == [i \in 1..Len(entries) |-> entries[i].telegram]

(* The entries with closing made a position of the whole stream. *)
Shift(entries, by) ==
    [i \in 1..Len(entries) |->
        [telegram |-> entries[i].telegram, closing |-> entries[i].closing + by]]

(* The buffer replaced by data instead of extended. *)
FeedReplacing(buf, data) == extract_telegrams(data)

(* TelegramParser.feed: the buffer is extended by data, then extracted. *)
feed(buf, data) == extract_telegrams(buf \o data)

-----------------------------------------------------------------------------
(* Inputs *)

MaxFrames == 2

MaxCut == 30

MaxData == 2

MaxResp == 1

RECURSIVE SeqsUpTo(_, _)
SeqsUpTo(S, n) ==
    IF n = 0 THEN { << >> }
    ELSE SeqsUpTo(S, n - 1) \cup
         { Append(q, x) : q \in { r \in SeqsUpTo(S, n - 1) : Len(r) = n - 1 },
                          x \in S }

(* QQ ZZ PB SB NN D0..D(NN-1) CRC, the checksum right or off by one. *)
Master(qq, zz, pb, sb, d, ok) ==
    LET head == << qq, zz, pb, sb, Len(d) >> \o d
    IN  head \o << IF ok THEN calculate(head) ELSE (calculate(head) + 1) % 256 >>

(* ACK NN2 R0..R(NN2-1) CRC2 and, in mack, ACK2 or nothing. *)
Response(r, ok, mack) ==
    LET body == << Len(r) >> \o r
    IN  << ACK >> \o body
        \o << IF ok THEN calculate(body) ELSE (calculate(body) + 1) % 256 >>
        \o mack

DataBytes == { 0, 1, ESCAPE, SYNC }

RespBytes == { 0, 85 }

(* test_parser.py, test_telegram_parser: the frame between the two SYNCs. *)
TestFrame == << 16, 254, 5, 7, 4, 0, 72, 18, 128, 0 >>

Masters ==
    { Master(16, zz, 181, 17, d, ok) :
        zz \in { 8, BROADCAST_ADDR }, d \in SeqsUpTo(DataBytes, MaxData),
        ok \in BOOLEAN } \cup { TestFrame }

Tails ==
    { << >>, << NAK >>, << 1 >>,
      << NAK >> \o Tail(Response(<< 85 >>, TRUE, << ACK >>)) } \cup
    { Response(r, ok, mack) :
        r \in SeqsUpTo(RespBytes, MaxResp), ok \in BOOLEAN,
        mack \in { << >>, << ACK >>, << NAK >> } }

(* Frame candidates of the wire: what stands between two delimiters. *)
Empty == << >>

GoodEscaped == escape(Master(16, 8, 181, 17, << SYNC >>, TRUE))

MasterSlave ==
    escape(Master(16, 8, 181, 17, << 1 >>, TRUE) \o Response(<< 85 >>, TRUE, << ACK >>))

Short == << 16, 8 >>

IncompleteFrame == << 16, 8, 181, 17, 5, 1, 2 >>

Candidates == { Empty, TestFrame, GoodEscaped, MasterSlave, Short }

(* A run of MaxBuffer + 1 bytes without a delimiter that begins like a    *)
(* telegram.                                                              *)
LongJunk ==
    Master(16, 8, 181, 17, << >>, TRUE) \o [i \in 1..(MaxBuffer - 5) |-> 16]

(* A well-formed master-slave telegram of 255 + 255 data bytes. *)
LongFrame ==
    Master(16, 8, 181, 17, [i \in 1..255 |-> 16], TRUE)
    \o Response([i \in 1..255 |-> 85], TRUE, << >>)

RECURSIVE Join(_)
Join(segs) ==
    IF Len(segs) = 0 THEN << >>
    ELSE IF Len(segs) = 1 THEN segs[1]
    ELSE segs[1] \o << SYNC_BYTE >> \o Join(Tail(segs))

(* The candidates separated by one delimiter, with or without a leading   *)
(* and a closing delimiter.                                               *)
Wire(lead, segs, closed) ==
    (IF lead THEN << SYNC_BYTE >> ELSE << >>) \o Join(segs)
    \o (IF closed THEN << SYNC_BYTE >> ELSE << >>)

ShortWires ==
    { Wire(lead, segs, closed) :
        lead \in BOOLEAN, segs \in SeqsUpTo(Candidates, MaxFrames),
        closed \in BOOLEAN }

LongWires ==
    { Wire(TRUE, << IncompleteFrame, GoodEscaped >>, TRUE),
      Wire(FALSE, << LongJunk >>, TRUE),
      Wire(TRUE, << LongJunk, GoodEscaped >>, TRUE),
      Wire(TRUE, << Short, LongFrame >>, TRUE) }

Wires == ShortWires \cup LongWires

(* Where the transport may cut the stream: anywhere in its first MaxCut   *)
(* bytes, anywhere in the MaxCut bytes from MaxBuffer on, and at its end. *)
CutAllowed(w, p) ==
    \/ p <= MaxCut
    \/ p >= MaxBuffer /\ p <= MaxBuffer + MaxCut
    \/ p = Len(w)

-----------------------------------------------------------------------------
(* The framer fed from the wire *)

(* No call of EscapeHandler or EbusCRC under way. *)
CodecIdle ==
    /\ bytes_in = << >>
    /\ escape_out = None
    /\ unescape_out = None
    /\ round_trip = None
    /\ calculate_out = None
    /\ calculate_alt_out = None
    /\ destuff_out = None

(* No FieldDefinition.decode call under way. *)
FieldIdle ==
    /\ field_def = None
    /\ field_data = << >>
    /\ decoded = None

(* A TheliaParser just constructed. *)
TheliaIdle ==
    /\ stats = [total |-> 0, parsed |-> 0, unknown |-> 0]
    /\ callbacks = << >>
    /\ handed = None
    /\ message = None
    /\ raised = None
    /\ notified = << >>

AggregatorIdle ==
    /\ max_age = 300
    /\ sensors = << >>
    /\ updated = << >>
    /\ replaced = << >>
    /\ got = << >>

AlertIdle ==
    /\ alert_callbacks = << >>
    /\ active_alerts = << >>
    /\ alert_history = << >>
    /\ last_alert_time = << >>
    /\ checked = << >>
    /\ new_alerts = << >>
    /\ alert_notified = << >>
    /\ stale_alerts = << >>
    /\ fault_alert = << >>

(* No thread inside the DataAggregator. *)
ThreadIdle ==
    /\ order = << >>
    /\ writer = << >>
    /\ reader = << >>
    /\ committed = << >>

SinkIdle ==
    /\ now = 0 /\ op = "init" /\ calls = 0
    /\ AggregatorIdle /\ AlertIdle /\ ThreadIdle

Init ==
    /\ wire \in Wires
    /\ pos = 0
    /\ buffer = << >>
    /\ ret = << >>
    /\ out = << >>
    /\ trimmed = FALSE
    /\ payload = << >>
    /\ raw_data = << >>
    /\ parsed = None
    /\ pc = "idle"
    /\ CodecIdle
    /\ FieldIdle
    /\ TheliaIdle
    /\ SinkIdle

(* The state after a feed call that returned r. *)
Fed(r, stream_base) ==
    /\ buffer' = r.buffer
    /\ ret' = Telegrams(r.telegrams)
    /\ out' = out \o Shift(r.telegrams, stream_base)
    /\ trimmed' = (trimmed \/ r.trimmed)

(* One read of the transport pushed into TelegramParser.feed. *)
Feed(n) ==
    /\ pos + n <= Len(wire)
    /\ CutAllowed(wire, pos + n)
    /\ Fed(feed(buffer, SubSeq(wire, pos + 1, pos + n)), pos - Len(buffer))
    /\ pos' = pos + n
    /\ UNCHANGED << sink_vars, wire, payload, raw_data, parsed, pc, codec_vars,
                    field_vars, thelia_vars >>

Next == \E n \in 1..(Len(wire) - pos) : Feed(n)

Spec == Init /\ [][Next]_vars

-----------------------------------------------------------------------------
(* One frame handed to parse, or fed between delimiters to a fresh parser *)

InitParse ==
    /\ \E m \in Masters, t \in Tails :
          \E k \in 0..Len(m \o t) : payload = SubSeq(m \o t, 1, k)
    /\ raw_data \in { payload, escape(payload) }
    /\ parsed = None
    /\ pc = "call"
    /\ wire = << >>
    /\ pos = 0
    /\ buffer = << >>
    /\ ret = << >>
    /\ out = << >>
    /\ trimmed = FALSE
    /\ CodecIdle
    /\ FieldIdle
    /\ TheliaIdle
    /\ SinkIdle

ParseCall ==
    /\ pc = "call"
    /\ parsed' = parse(raw_data)
    /\ pc' = "parsed"
    /\ UNCHANGED << sink_vars, wire, pos, buffer, ret, out, trimmed, payload, raw_data,
                    codec_vars, field_vars, thelia_vars >>

FeedCall ==
    /\ pc = "call"
    /\ buffer = << >>
    /\ Fed(feed(buffer, << SYNC_BYTE >> \o raw_data \o << SYNC_BYTE >>), 0)
    /\ pc' = "fed"
    /\ UNCHANGED << sink_vars, wire, pos, payload, raw_data, parsed, codec_vars,
                    field_vars, thelia_vars >>

NextParse == ParseCall \/ FeedCall

SpecParse == InitParse /\ [][NextParse]_vars

-----------------------------------------------------------------------------
(* thelia/messages.py: FieldDefinition.decode                              *)
(*                                                                         *)
(* A decoded Python value is a record: an int or a float is num/den (a     *)
(* float in lowest terms, den a power of two), a bool is num = 1 or 0, a   *)
(* str made of hex digits or a label is text (a sequence of strings) and a *)
(* str decoded from bytes is codes (its code points).                      *)

PyValue(type, num, den, text, codes) ==
    [type |-> type, num |-> num, den |-> den, text |-> text, codes |-> codes]

PyInt(n) == PyValue("int", n, 1, << >>, << >>)

RECURSIVE PyFloat(_, _)
PyFloat(n, d) ==
    IF d > 1 /\ n % 2 = 0 THEN PyFloat(n \div 2, d \div 2)
    ELSE PyValue("float", n, d, << >>, << >>)

PyBool(b) == PyValue("bool", IF b THEN 1 ELSE 0, 1, << >>, << >>)

PyStr(text) == PyValue("str", 0, 1, text, << >>)

PyText(codes) == PyValue("str", 0, 1, << >>, codes)

(* An empty dict. *)
EmptyDict == [k \in {} |-> 0]

(* d[k] = v on a dict. *)
DictSet(d, k, v) ==
    [x \in (DOMAIN d) \cup { k } |-> IF x = k THEN v ELSE d[x]]

(* FieldDefinition(name, offset, data_type) with the defaults of lines     *)
(* 35-42; factor and offset_value are the floats 1.0 and 0.0.              *)
FieldDefinition(name, offset, data_type) ==
    [name |-> name, offset |-> offset, data_type |-> data_type, length |-> 1,
     unit |-> "", bit_position |-> 0, bit_count |-> 1, factor |-> 1,
     offset_value |-> 0, values |-> EmptyDict]

(* The unsigned value of little-endian bytes. *)
RECURSIVE LittleEndian(_)
LittleEndian(b) ==
    IF b = << >> THEN 0 ELSE b[1] + 256 * LittleEndian(Tail(b))

(* The sign never applied. *)
FromBytesUnsigned(b, signed) == LittleEndian(b)

(* int.from_bytes(b, 'little', signed=signed) *)
from_bytes(b, signed) ==
    IF signed /\ Len(b) > 0 /\ LittleEndian(b) >= (256 ^ Len(b)) \div 2
    THEN LittleEndian(b) - 256 ^ Len(b)
    ELSE LittleEndian(b)

HexDigits ==
    << "0", "1", "2", "3", "4", "5", "6", "7", "8", "9",
       "a", "b", "c", "d", "e", "f" >>

(* bytes.hex() *)
RECURSIVE hex(_)
hex(b) ==
    IF b = << >> THEN << >>
    ELSE << HexDigits[(b[1] \div 16) + 1], HexDigits[(b[1] % 16) + 1] >>
         \o hex(Tail(b))

(* str.strip('\x00') on code points. *)
RECURSIVE strip_nul(_)
strip_nul(c) ==
    IF c = << >> THEN c
    ELSE IF c[1] = 0 THEN strip_nul(Tail(c))
    ELSE IF c[Len(c)] = 0 THEN strip_nul(SubSeq(c, 1, Len(c) - 1))
    ELSE c

(* bytes.decode('ascii', errors='ignore') *)
decode_ascii(b) == SelectSeq(b, LAMBDA x : x < 128)

(* Lines 54-58: nothing at the offset, or fewer than length bytes from it. *)
OutOfData(f, data) ==
    \/ f.offset >= Len(data)
    \/ /\ f.offset + f.length > Len(data)
       /\ f.data_type \notin { "BIT", "BITS" }

(* Lines 63-129: raw_value by data type; byte is data[self.offset]. The    *)
(* else arm of line 128 serves no member of DataType.                      *)
RawValue(f, data, byte) ==
    CASE f.data_type = "UINT8" -> PyInt(byte)
      [] f.data_type = "INT8" -> PyInt(from_bytes(<< byte >>, TRUE))
      [] f.data_type = "UINT16" ->
             PyInt(from_bytes(Slice(data, f.offset, f.offset + 2), FALSE))
      [] f.data_type = "INT16" ->
             PyInt(from_bytes(Slice(data, f.offset, f.offset + 2), TRUE))
      [] f.data_type = "UINT32" ->
             PyInt(from_bytes(Slice(data, f.offset, f.offset + 4), FALSE))
      [] f.data_type = "DATA1B" -> PyFloat(from_bytes(<< byte >>, TRUE), 2)
      [] f.data_type = "DATA1C" -> PyFloat(byte, 2)
      [] f.data_type = "DATA2B" ->
             PyFloat(from_bytes(Slice(data, f.offset, f.offset + 2), TRUE), 256)
      [] f.data_type = "DATA2C" ->
             PyFloat(from_bytes(Slice(data, f.offset, f.offset + 2), FALSE), 256)
      [] f.data_type = "BIT" ->
             PyBool((byte \div (2 ^ f.bit_position)) % 2 = 1)
      [] f.data_type = "BITS" ->
             PyInt((byte \div (2 ^ f.bit_position)) % (2 ^ f.bit_count))
      [] f.data_type = "BCD" -> PyInt((byte \div 16) * 10 + (byte % 16))
      [] f.data_type = "BYTES" ->
             PyStr(hex(Slice(data, f.offset, f.offset + f.length)))
      [] f.data_type = "STRING" ->
             PyText(strip_nul(decode_ascii(
                        Slice(data, f.offset, f.offset + f.length))))
      [] OTHER -> PyInt(byte)

(* Lines 131-133: an int or a float times the float factor plus the float  *)
(* offset_value is a float; a bool or a str is left alone.                 *)
Scaled(f, v) ==
    IF v.type \in { "int", "float" }
    THEN PyFloat(v.num * f.factor + f.offset_value * v.den, v.den)
    ELSE v

(* Lines 135-138: the label of an int (a bool is an int) that is a key of  *)
(* a non-empty values mapping.                                             *)
Mapped(f, v) ==
    IF f.values # EmptyDict /\ v.type \in { "int", "bool" }
         /\ v.num \in DOMAIN f.values
    THEN PyStr(<< f.values[v.num] >>)
    ELSE v

(* FieldDefinition.decode: None or Some(value).  With offsets, bit         *)
(* positions and bit counts that are not negative no statement of the try  *)
(* block raises, so the except arm is dead.                                *)
decode(f, data) ==
    IF OutOfData(f, data) THEN None
    ELSE Some(Mapped(f, Scaled(f, RawValue(f, data, data[f.offset + 1]))))

-----------------------------------------------------------------------------
(* thelia/messages.py: the message registry *)

WithUnit(f, unit) == [f EXCEPT !.unit = unit]

BitAt(f, bit_position) == [f EXCEPT !.bit_position = bit_position]

WithValues(f, values) == [f EXCEPT !.values = values]

WithLength(f, length) == [f EXCEPT !.length = length]

MessageDefinition(name, primary_command, secondary_command, fields) ==
    [name |-> name, primary_command |-> primary_command,
     secondary_command |-> secondary_command, fields |-> fields]

msg_datetime ==
    MessageDefinition("datetime", 7, 0,
        << FieldDefinition("second", 0, "BCD"),
           FieldDefinition("minute", 1, "BCD"),
           FieldDefinition("hour", 2, "BCD"),
           FieldDefinition("day", 3, "BCD"),
           FieldDefinition("month", 4, "BCD"),
           FieldDefinition("year", 5, "BCD"),
           FieldDefinition("weekday", 6, "UINT8") >>)

msg_outside_temp ==
    MessageDefinition("outside_temp", 5, 3,
        << WithUnit(FieldDefinition("outside_temp", 0, "DATA2B"), "°C") >>)

msg_flow_return_temp ==
    MessageDefinition("flow_return_temp", 5, 7,
        << WithUnit(FieldDefinition("flow_temp", 0, "DATA2B"), "°C"),
           WithUnit(FieldDefinition("return_temp", 2, "DATA2B"), "°C") >>)

msg_dhw_temps ==
    MessageDefinition("dhw_temps", 5, 8,
        << WithUnit(FieldDefinition("dhw_temp", 0, "DATA2B"), "°C"),
           WithUnit(FieldDefinition("dhw_setpoint", 2, "DATA1C"), "°C") >>)

msg_room_temp ==
    MessageDefinition("room_temp", 5, 9,
        << WithUnit(FieldDefinition("room_temp", 0, "DATA2B"), "°C"),
           WithUnit(FieldDefinition("room_setpoint", 2, "DATA1C"), "°C") >>)

msg_status_flags ==
    MessageDefinition("status_flags", 5, 1,
        << BitAt(FieldDefinition("burner", 0, "BIT"), 0),
           BitAt(FieldDefinition("pump", 0, "BIT"), 1),
           BitAt(FieldDefinition("dhw_mode", 0, "BIT"), 2),
           BitAt(FieldDefinition("heating_mode", 0, "BIT"), 3),
           BitAt(FieldDefinition("flame", 0, "BIT"), 4) >>)

msg_modulation ==
    MessageDefinition("modulation", 5, 4,
        << WithUnit(FieldDefinition("modulation", 0, "UINT8"), "%"),
           WithUnit(FieldDefinition("power", 1, "DATA1C"), "kW") >>)

msg_pressure ==
    MessageDefinition("pressure", 5, 18,
        << WithUnit(FieldDefinition("pressure", 0, "DATA1C"), "bar") >>)

msg_error ==
    MessageDefinition("error", 5, 16,
        << FieldDefinition("error_code", 0, "UINT8"),
           WithValues(FieldDefinition("error_state", 1, "UINT8"),
                      (0 :> "ok" @@ 1 :> "warning" @@ 2 :> "blocking"
                       @@ 3 :> "locking")) >>)

msg_device_id ==
    MessageDefinition("device_id", 7, 4,
        << WithValues(FieldDefinition("manufacturer", 0, "UINT8"),
                      (17 :> "Vaillant" @@ 65 :> "Saunier Duval")),
           WithLength(FieldDefinition("device_id", 1, "BYTES"), 5),
           FieldDefinition("sw_version", 6, "UINT16") >>)

msg_vaillant_status ==
    MessageDefinition("vaillant_status", 181, 17,
        << FieldDefinition("status_byte", 0, "UINT8") >>)

msg_vaillant_temps ==
    MessageDefinition("vaillant_temps", 181, 16,
        << WithUnit(FieldDefinition("temp1", 0, "DATA2B"), "°C"),
           WithUnit(FieldDefinition("temp2", 2, "DATA2B"), "°C") >>)

msg_vaillant_room ==
    MessageDefinition("vaillant_room", 181, 9,
        << WithUnit(FieldDefinition("room_temp", 0, "DATA2B"), "°C"),
           WithUnit(FieldDefinition("setpoint", 2, "DATA1C"), "°C") >>)

msg_vaillant_modulation ==
    MessageDefinition("vaillant_modulation", 181, 4,
        << WithUnit(FieldDefinition("modulation", 0, "UINT8"), "%") >>)

msg_vaillant_pressure ==
    MessageDefinition("vaillant_pressure", 181, 22,
        << WithUnit(FieldDefinition("pressure", 0, "DATA1C"), "bar") >>)

(* The register_message calls of the module, in order. *)
Registered ==
    << msg_datetime, msg_outside_temp, msg_flow_return_temp, msg_dhw_temps,
       msg_room_temp, msg_status_flags, msg_modulation, msg_pressure,
       msg_error, msg_device_id, msg_vaillant_status, msg_vaillant_temps,
       msg_vaillant_room, msg_vaillant_modulation, msg_vaillant_pressure >>

(* MessageDefinition.command *)
command(msg) == << msg.primary_command, msg.secondary_command >>

(* register_message: THELIA_MESSAGES[msg.command] = msg *)
register_message(registry, msg) == DictSet(registry, command(msg), msg)

RECURSIVE RegisterAll(_, _)
RegisterAll(registry, n) ==
    IF n = 0 THEN registry
    ELSE register_message(RegisterAll(registry, n - 1), Registered[n])

(* THELIA_MESSAGES once the module is imported. *)
THELIA_MESSAGES == RegisterAll(EmptyDict, Len(Registered))

(* get_message_definition: THELIA_MESSAGES.get((primary, secondary)) *)
get_message_definition(primary, secondary) ==
    IF << primary, secondary >> \in DOMAIN THELIA_MESSAGES
    THEN Some(THELIA_MESSAGES[<< primary, secondary >>])
    ELSE None

-----------------------------------------------------------------------------
(* thelia/parser.py: TheliaParser *)

EBUS_ADDRESSES ==
    (0 :> "broadcast_0" @@ 8 :> "boiler" @@ 16 :> "mipro" @@ 21 :> "room_unit"
     @@ 254 :> "broadcast")

HexUpperDigits ==
    << "0", "1", "2", "3", "4", "5", "6", "7", "8", "9",
       "A", "B", "C", "D", "E", "F" >>

(* get_device_name: the known name, or "device_" and two hex digits; a     *)
(* name is the sequence of its parts.                                      *)
get_device_name(addr) ==
    IF addr \in DOMAIN EBUS_ADDRESSES THEN << EBUS_ADDRESSES[addr] >>
    ELSE << "device_", HexUpperDigits[(addr \div 16) + 1],
            HexUpperDigits[(addr % 16) + 1] >>

(* ParsedMessage, without its timestamp. *)
ParsedMessage(name, telegram, query_data, response_data, units) ==
    [name |-> name,
     source |-> telegram.source,
     destination |-> telegram.destination,
     source_name |-> get_device_name(telegram.source),
     dest_name |-> get_device_name(telegram.destination),
     command |-> << telegram.primary_command, telegram.secondary_command >>,
     query_data |-> query_data,
     response_data |-> response_data,
     units |-> units,
     raw_telegram |-> telegram]

(* Lines 110-114, the body of the loop over the fields: acc holds the      *)
(* value and unit maps built so far, value is field_def.decode(data).      *)
DecodeInto(acc, f, value) ==
    IF value # None
    THEN [values |-> DictSet(acc.values, f.name, value[1]),
          units |-> IF f.unit # "" THEN DictSet(acc.units, f.name, f.unit)
                    ELSE acc.units]
    ELSE acc

(* The loop of lines 109-114 over the first n fields. *)
RECURSIVE DecodeFields(_, _, _)
DecodeFields(fields, data, n) ==
    IF n = 0 THEN [values |-> EmptyDict, units |-> EmptyDict]
    ELSE DecodeInto(DecodeFields(fields, data, n - 1), fields[n],
                    decode(fields[n], data))

(* _notify given up at the first callback that raises. *)
NotifyUntilRaise(cbs) ==
    [i \in 1..(IF \E j \in 1..Len(cbs) : cbs[j] = "raises"
               THEN CHOOSE j \in 1..Len(cbs) :
                        /\ cbs[j] = "raises"
                        /\ \A k \in 1..(j - 1) : cbs[k] # "raises"
               ELSE Len(cbs)) |->
        [callback |-> i, raised |-> (cbs[i] = "raises")]]

(* TheliaParser._notify: every callback is called, in order, and what one  *)
(* raises is logged and dropped.                                           *)
notify(cbs) ==
    [i \in 1..Len(cbs) |-> [callback |-> i, raised |-> (cbs[i] = "raises")]]

(* The truth value of telegram.response_data: neither None nor empty. *)
Truthy(response_data) == response_data # None /\ response_data[1] # << >>

(* parse without the notification of lines 102-103. *)
ParseUnknownSilent(st, cbs, telegram) ==
    [stats |-> [st EXCEPT !.unknown = @ + 1],
     message |->
         Some(ParsedMessage("unknown", telegram,
                            "raw" :> PyStr(hex(telegram.data)),
                            IF Truthy(telegram.response_data)
                            THEN "raw" :> PyStr(hex(telegram.response_data[1]))
                            ELSE EmptyDict,
                            EmptyDict)),
     raised |-> None,
     notified |-> << >>]

(* Lines 87-103: no definition for the command. *)
ParseUnknown(st, cbs, telegram) ==
    [stats |-> [st EXCEPT !.unknown = @ + 1],
     message |->
         Some(ParsedMessage("unknown", telegram,
                            "raw" :> PyStr(hex(telegram.data)),
                            IF Truthy(telegram.response_data)
                            THEN "raw" :> PyStr(hex(telegram.response_data[1]))
                            ELSE EmptyDict,
                            EmptyDict)),
     raised |-> None,
     notified |-> notify(cbs)]

(* Lines 105-141: the command is registered as msg_def, and query holds    *)
(* the maps decoded from telegram.data.  MessageDefinition has no          *)
(* attribute response_fields: line 116 raises AttributeError as soon as    *)
(* telegram.response_data is truthy.                                       *)
ParseKnown(st, cbs, telegram, msg_def, query) ==
    IF Truthy(telegram.response_data)
    THEN [stats |-> st, message |-> None, raised |-> Some("AttributeError"),
          notified |-> << >>]
    ELSE [stats |-> [st EXCEPT !.parsed = @ + 1],
          message |-> Some(ParsedMessage(msg_def.name, telegram, query.values,
                                         EmptyDict, query.units)),
          raised |-> None,
          notified |-> notify(cbs)]

(* Lines 79-85 and the branch on msg_def. *)
ParseWith(st, cbs, telegram, msg_def) ==
    IF msg_def = None THEN ParseUnknown(st, cbs, telegram)
    ELSE ParseKnown(st, cbs, telegram, msg_def[1],
                    DecodeFields(msg_def[1].fields, telegram.data,
                                 Len(msg_def[1].fields)))

(* TheliaParser.parse: the stats, the message returned or the exception    *)
(* raised, and the callbacks invoked.                                      *)
thelia_parse(st, cbs, telegram) ==
    ParseWith([st EXCEPT !.total = @ + 1], cbs, telegram,
              get_message_definition(telegram.primary_command,
                                     telegram.secondary_command))

-----------------------------------------------------------------------------
(* thelia/parser.py: DataAggregator *)

(* The float n / d, d > 0, as an exact fraction. *)
Quotient(n, d) == [num |-> n, den |-> d]

Less(x, y) == x.num * y.den < y.num * x.den

LessEq(x, y) == x.num * y.den <= y.num * x.den

(* The integer nearest to n / d, d > 0, a tie going to the even one. *)
RoundHalfEven(n, d) ==
    LET q == n \div d
        r == n % d
    IN  IF 2 * r < d THEN q
        ELSE IF 2 * r > d THEN q + 1
        ELSE IF q % 2 = 0 THEN q ELSE q + 1

(* round(x, 1): the float nearest to a whole number of tenths. *)
round1(x) ==
    PyValue("float", RoundHalfEven(10 * x.num, x.den), 10, << >>, << >>)

(* DataAggregator._set_sensor *)
set_sensor(s, name, value, unit, timestamp, description) ==
    DictSet(s, name, [value |-> value, unit |-> unit, timestamp |-> timestamp,
                      description |-> description])

(* The temperature stored whatever its size. *)
SetHalfDegreesUnbounded(s, byte, name, ts, description) ==
    IF byte # 255
    THEN set_sensor(s, name, round1(Quotient(byte, 2)), "°C", ts, description)
    ELSE s

(* Lines 205-209 and 211-215: a temperature byte that is not 0xFF is       *)
(* halved and stored when it lies strictly between 0 and 100.              *)
SetHalfDegrees(s, byte, name, ts, description) ==
    IF byte # 255 /\ Less(Quotient(0, 1), Quotient(byte, 2))
                  /\ Less(Quotient(byte, 2), Quotient(100, 1))
    THEN set_sensor(s, name, round1(Quotient(byte, 2)), "°C", ts, description)
    ELSE s

(* Lines 218-226: flow and ret are not None when their bytes are not 0xFF. *)
SetDeltaT(s, resp, ts) ==
    IF resp[1] # 255 /\ resp[2] # 255
         /\ Less(Quotient(0, 1), Quotient(resp[1], 2))
         /\ Less(Quotient(0, 1), Quotient(resp[2], 2))
    THEN set_sensor(
             set_sensor(s, "boiler.delta_t",
                        round1(Quotient(resp[1] - resp[2], 2)), "°C", ts,
                        "Temperature difference (Flow - Return)"),
             "boiler.condensing_possible",
             PyBool(Less(Quotient(resp[2], 2), Quotient(55, 1))), "", ts,
             "Return temp allows condensation (<55°C)")
    ELSE s

(* Lines 229-231 *)
SetStatusCode(s, resp, ts) ==
    IF resp[6] # 255
    THEN set_sensor(s, "boiler.status_code", PyInt(resp[6]), "", ts, "")
    ELSE s

(* Lines 200-231: B511 type 1. *)
ExtractType1(s, resp, ts) ==
    SetStatusCode(
        SetDeltaT(
            SetHalfDegrees(
                SetHalfDegrees(s, resp[1], "boiler.flow_temperature", ts,
                               "Flow temperature (Vorlauf)"),
                resp[2], "boiler.return_temperature", ts,
                "Return temperature (Rücklauf)"),
            resp, ts),
        resp, ts)

(* Lines 236-240 *)
SetPressure(s, resp, ts) ==
    IF resp[3] # 255 /\ LessEq(Quotient(1, 10), Quotient(resp[3], 10))
                     /\ LessEq(Quotient(resp[3], 10), Quotient(4, 1))
    THEN set_sensor(s, "boiler.water_pressure", round1(Quotient(resp[3], 10)),
                    "bar", ts, "System water pressure")
    ELSE s

(* ext_status & mask, for a mask of one bit. *)
BitSet(byte, mask) == (byte \div mask) % 2 = 1

(* Lines 243-251 *)
SetExtendedStatus(s, resp, ts) ==
    IF resp[8] # 255
    THEN set_sensor(
             set_sensor(
                 set_sensor(s, "boiler.flame_on", PyBool(BitSet(resp[8], 1)),
                            "", ts, "Burner flame active"),
                 "boiler.pump_running", PyBool(BitSet(resp[8], 2)), "", ts,
                 "Circulation pump running"),
             "boiler.heating_active", PyBool(BitSet(resp[8], 128)), "", ts,
             "Heating mode active")
    ELSE s

(* Lines 233-251: B511 type 0. *)
ExtractType0(s, resp, ts) == SetExtendedStatus(SetPressure(s, resp, ts), resp, ts)

(* Lines 255-257 and 268-270 *)
SetModulation(s, resp, ts) ==
    IF resp[1] # 255 /\ resp[1] <= 100
    THEN set_sensor(s, "boiler.burner_modulation", PyInt(resp[1]), "%", ts,
                    "Burner modulation level")
    ELSE s

(* Lines 259-263 *)
SetCutoff(s, resp, ts) ==
    IF resp[2] # 255 /\ 5 <= resp[2] /\ resp[2] <= 30
    THEN set_sensor(s, "mipro.outdoor_cutoff", PyInt(resp[2]), "°C", ts,
                    "Outdoor cutoff setpoint (heating off when outdoor > this)")
    ELSE s

(* Lines 253-263: B511 type 2. *)
ExtractType2(s, resp, ts) == SetCutoff(SetModulation(s, resp, ts), resp, ts)

(* Lines 197-263: the branch of the message named "status_temps". *)
ExtractStatusTemps(s, data, resp, ts) ==
    IF data[1] = 1 /\ Len(resp) >= 6 THEN ExtractType1(s, resp, ts)
    ELSE IF data[1] = 0 /\ Len(resp) >= 8 THEN ExtractType0(s, resp, ts)
    ELSE IF data[1] = 2 /\ Len(resp) >= 2 THEN ExtractType2(s, resp, ts)
    ELSE s

(* Lines 273-278: the outdoor temperature, int16 little-endian over 256. *)
SetOutdoor(s, outdoor_raw, ts) ==
    IF outdoor_raw # -1 /\ outdoor_raw # 32767 /\ outdoor_raw # -32768
         /\ LessEq(Quotient(-40, 1), Quotient(outdoor_raw, 256))
         /\ LessEq(Quotient(outdoor_raw, 256), Quotient(50, 1))
    THEN set_sensor(s, "boiler.outdoor_temperature",
                    round1(Quotient(outdoor_raw, 256)), "°C", ts,
                    "Outdoor temperature")
    ELSE s

(* Lines 266-278: the branch of the message named "modulation_outdoor". *)
ExtractModulationOutdoor(s, resp, ts) ==
    SetOutdoor(SetModulation(s, resp, ts),
               from_bytes(Slice(resp, 8, 10), TRUE), ts)

(* Lines 286-290 and 293-297: a setpoint byte that is not 0xFF is halved   *)
(* and stored when it lies between lo and hi.                              *)
SetSetpoint(s, byte, lo, hi, name, ts, description) ==
    IF byte # 255 /\ LessEq(Quotient(lo, 1), Quotient(byte, 2))
                  /\ LessEq(Quotient(byte, 2), Quotient(hi, 1))
    THEN set_sensor(s, name, round1(Quotient(byte, 2)), "°C", ts, description)
    ELSE s

(* Lines 281-297: the branch of the message named "temp_setpoint". *)
ExtractTempSetpoint(s, data, ts) ==
    IF data[1] = 0
    THEN SetSetpoint(
             SetSetpoint(s, data[3], 20, 80, "mipro.target_flow_temp", ts,
                         "Target flow temperature"),
             data[4], 30, 65, "mipro.dhw_setpoint", ts,
             "DHW temperature setpoint")
    ELSE s

(* Lines 307-311 *)
SetRoomAdjust(s, byte, adj, ts) ==
    IF byte # 255 /\ byte # 127 /\ -10 <= adj /\ adj <= 10
    THEN set_sensor(s, "mipro.room_setpoint_adjust", PyInt(adj), "", ts,
                    "Room setpoint adjustment")
    ELSE s

(* Lines 300-311: the branch of the message named "room_temp". *)
ExtractRoomTemp(s, data, ts) ==
    SetRoomAdjust(
        SetSetpoint(s, data[1], 5, 35, "mipro.room_temperature", ts,
                    "Room temperature"),
        data[2], from_bytes(<< data[2] >>, TRUE), ts)

(* Lines 318-323: the local bcd, None when a nibble is above 9. *)
bcd(b) ==
    IF (b \div 16) % 16 > 9 \/ b % 16 > 9 THEN None
    ELSE Some(((b \div 16) % 16) * 10 + (b % 16))

(* The format spec :02d for 0..99. *)
TwoDigits(n) == << HexDigits[(n \div 10) + 1], HexDigits[(n % 10) + 1] >>

(* Lines 325-331 *)
SetTime(s, sec, min, hour, ts) ==
    IF sec # None /\ min # None /\ hour # None
         /\ hour[1] < 24 /\ min[1] < 60 /\ sec[1] < 60
    THEN set_sensor(s, "mipro.time",
                    PyStr(TwoDigits(hour[1]) \o << ":" >> \o TwoDigits(min[1])
                          \o << ":" >> \o TwoDigits(sec[1])),
                    "", ts, "")
    ELSE s

(* Lines 333-340: day and month must be truthy, neither None nor 0. *)
SetDate(s, day, month, year, ts) ==
    IF day # None /\ day # Some(0) /\ month # None /\ month # Some(0)
         /\ year # None
         /\ 1 <= day[1] /\ day[1] <= 31 /\ 1 <= month[1] /\ month[1] <= 12
    THEN set_sensor(s, "mipro.date",
                    PyStr(<< "2", "0" >> \o TwoDigits(year[1]) \o << "-" >>
                          \o TwoDigits(month[1]) \o << "-" >>
                          \o TwoDigits(day[1])),
                    "", ts, "")
    ELSE s

(* Lines 314-340: the branch of the message named "datetime". *)
ExtractDateTime(s, data, ts) ==
    IF data[1] = 0
    THEN SetDate(SetTime(s, bcd(data[2]), bcd(data[3]), bcd(data[4]), ts),
                 bcd(data[5]), bcd(data[6]), bcd(data[8]), ts)
    ELSE s

(* An Optional bytes value or b''. *)
OrEmpty(b) == IF b = None THEN << >> ELSE b[1]

(* DataAggregator._extract_sensors, with ts = msg.timestamp, data =        *)
(* telegram.data or b'' and resp = telegram.response_data or b''.          *)
extract_sensors(s, name, data, resp, ts) ==
    IF name = "status_temps" /\ Len(data) >= 1
    THEN ExtractStatusTemps(s, data, resp, ts)
    ELSE IF name = "modulation_outdoor" /\ Len(resp) >= 10
    THEN ExtractModulationOutdoor(s, resp, ts)
    ELSE IF name = "temp_setpoint" /\ Len(data) >= 4
    THEN ExtractTempSetpoint(s, data, ts)
    ELSE IF name = "room_temp" /\ Len(data) >= 2
    THEN ExtractRoomTemp(s, data, ts)
    ELSE IF name = "datetime" /\ Len(data) >= 8
    THEN ExtractDateTime(s, data, ts)
    ELSE s

(* DataAggregator.update: the new _sensors.  msg.raw_telegram is the       *)
(* telegram the message was parsed from, and ts its timestamp.             *)
update(s, msg, ts) ==
    IF msg.name \in { "unknown", "device_id" } THEN s
    ELSE extract_sensors(s, msg.name, msg.raw_telegram.data,
                         OrEmpty(msg.raw_telegram.response_data), ts)

(* get_sensor with the age limit excluded. *)
GetSensorExclusive(s, age_limit, t, name) ==
    IF name \notin DOMAIN s THEN None
    ELSE IF t - s[name].timestamp >= age_limit THEN None
    ELSE Some(s[name].value)

(* DataAggregator.get_sensor at time t: None or Some(value). *)
get_sensor(s, age_limit, t, name) ==
    IF name \notin DOMAIN s THEN None
    ELSE IF t - s[name].timestamp > age_limit THEN None
    ELSE Some(s[name].value)

(* An entry of the dict get_all_sensors returns. *)
SensorView(entry, age) ==
    [value |-> entry.value, unit |-> entry.unit,
     age_seconds |-> round1(Quotient(age, 1)),
     description |-> entry.description]

(* DataAggregator.get_all_sensors at time t. *)
get_all_sensors(s, age_limit, t) ==
    [name \in { k \in DOMAIN s : t - s[k].timestamp <= age_limit } |->
        SensorView(s[name], t - s[name].timestamp)]

(* Lines 200-231: the sensors a B511 type 1 update writes, in the order    *)
(* of its _set_sensor calls.                                               *)
Type1Order ==
    << "boiler.flow_temperature", "boiler.return_temperature",
       "boiler.delta_t", "boiler.condensing_possible", "boiler.status_code" >>

(* The _set_sensor calls update(msg) makes for a B511 type 1 message, in   *)
(* order: each stores an entry that does not depend on what _sensors held. *)
RECURSIVE SetSensorCalls(_, _, _)
SetSensorCalls(msg, ts, n) ==
    IF n = 0 THEN << >>
    ELSE IF Type1Order[n] \in DOMAIN update(EmptyDict, msg, ts)
    THEN Append(SetSensorCalls(msg, ts, n - 1),
                [name |-> Type1Order[n],
                 entry |-> update(EmptyDict, msg, ts)[Type1Order[n]]])
    ELSE SetSensorCalls(msg, ts, n - 1)

(* Line 363: the iterator of _sensors.items(), which remembers the size    *)
(* of the dict, with the empty result and the time of line 362.            *)
ItemsIterator(keys, t) ==
    [now |-> t, size |-> Len(keys), index |-> 0, result |-> EmptyDict]

(* Lines 364-371: the body of the loop of get_all_sensors for one item. *)
ReadItem(it, name, entry, age_limit) ==
    [it EXCEPT !.index = it.index + 1,
               !.result = IF it.now - entry.timestamp <= age_limit
                          THEN DictSet(it.result, name,
                                       SensorView(entry,
                                                  it.now - entry.timestamp))
                          ELSE it.result]

-----------------------------------------------------------------------------
(* thelia/alerts.py: AlertManager *)

(* AlertThreshold; min_value and max_value are None or Some(a float). *)
AlertThreshold(alert_type, sensor_name, min_value, max_value, severity, cooldown) ==
    [alert_type |-> alert_type, sensor_name |-> sensor_name,
     min_value |-> min_value, max_value |-> max_value, severity |-> severity,
     cooldown_seconds |-> cooldown]

(* AlertManager._setup_default_thresholds: _thresholds, in order. *)
default_thresholds ==
    << AlertThreshold("low_pressure", "boiler.water_pressure", None,
                      Some(Quotient(8, 10)), "warning", 600),
       AlertThreshold("low_pressure", "boiler.water_pressure", None,
                      Some(Quotient(5, 10)), "critical", 300),
       AlertThreshold("high_pressure", "boiler.water_pressure",
                      Some(Quotient(25, 10)), None, "warning", 600),
       AlertThreshold("high_pressure", "boiler.water_pressure",
                      Some(Quotient(30, 10)), None, "critical", 300),
       AlertThreshold("no_condensing", "boiler.return_temperature",
                      Some(Quotient(55, 1)), None, "info", 1800),
       AlertThreshold("high_return_temp", "boiler.return_temperature",
                      Some(Quotient(65, 1)), None, "warning", 900),
       AlertThreshold("high_return_temp", "boiler.return_temperature",
                      Some(Quotient(75, 1)), None, "critical", 300) >>

(* Line 229: the alert key, the type and the severity joined by "_". *)
alert_key(threshold) == << threshold.alert_type, "_", threshold.severity >>

(* Lines 219-221 *)
MinTriggered(threshold, value) ==
    threshold.min_value # None /\ LessEq(threshold.min_value[1], value)

(* Lines 223-225 *)
MaxTriggered(threshold, value) ==
    threshold.max_value # None /\ LessEq(value, threshold.max_value[1])

(* Lines 241-248: the Alert; its message is the template of the rule       *)
(* filled with value and threshold, which the other fields determine.      *)
Alert(threshold, value, t) ==
    [alert_type |-> threshold.alert_type,
     severity |-> threshold.severity,
     value |-> value,
     threshold |-> IF MaxTriggered(threshold, value)
                   THEN threshold.max_value[1]
                   ELSE threshold.min_value[1],
     timestamp |-> t,
     acknowledged |-> FALSE]

(* Lines 256-260: every callback is called with the alert, in order, and   *)
(* what one raises is logged and dropped.                                  *)
NotifyAlert(cbs, key) ==
    [i \in 1..Len(cbs) |->
        [alert |-> key, callback |-> i, raised |-> (cbs[i] = "raises")]]

(* Lines 235-260: the alert is created, recorded and announced. *)
Emit(st, threshold, value, t, cbs) ==
    [new_alerts |-> Append(st.new_alerts, Alert(threshold, value, t)),
     active |-> DictSet(st.active, alert_key(threshold),
                        Alert(threshold, value, t)),
     history |-> Append(st.history, Alert(threshold, value, t)),
     last |-> DictSet(st.last, alert_key(threshold), t),
     notified |-> st.notified \o NotifyAlert(cbs, alert_key(threshold))]

(* The cooldown never applied. *)
InCooldownNever(st, threshold, t) == FALSE

(* Lines 230-233: still in cooldown. *)
InCooldown(st, threshold, t) ==
    /\ alert_key(threshold) \in DOMAIN st.last
    /\ t - st.last[alert_key(threshold)] < threshold.cooldown_seconds

(* Lines 204-260: the body of the loop for one threshold. *)
CheckThreshold(st, threshold, readings, t, cbs) ==
    IF threshold.sensor_name \notin DOMAIN readings THEN st
    ELSE IF ~ ( \/ MinTriggered(threshold,
                                readings[threshold.sensor_name].value)
                \/ MaxTriggered(threshold,
                                readings[threshold.sensor_name].value) )
    THEN st
    ELSE IF InCooldown(st, threshold, t) THEN st
    ELSE Emit(st, threshold, readings[threshold.sensor_name].value, t, cbs)

(* The loop of line 203 over the first n thresholds. *)
RECURSIVE CheckThresholds(_, _, _, _, _)
CheckThresholds(st, n, readings, t, cbs) ==
    IF n = 0 THEN st
    ELSE CheckThreshold(CheckThresholds(st, n - 1, readings, t, cbs),
                        default_thresholds[n], readings, t, cbs)

(* AlertManager.check_sensors at time t: the list returned, the new        *)
(* _active_alerts, _alert_history and _last_alert_time, and the callbacks  *)
(* invoked.                                                                *)
check_sensors(active, history, last, readings, t, cbs) ==
    CheckThresholds([new_alerts |-> << >>, active |-> active,
                     history |-> history, last |-> last, notified |-> << >>],
                    Len(default_thresholds), readings, t, cbs)

(* Lines 314-317: critical_sensors, in order. *)
critical_sensors == << "boiler.flow_temperature", "boiler.water_pressure" >>

(* Line 328: the key of the staleness alert of a sensor. *)
stale_key(sensor_name) == << "stale_", sensor_name >>

(* Lines 334-341: the SENSOR_STALE alert. *)
StaleAlert(sensor_name, age, age_limit, t) ==
    [alert_type |-> "sensor_stale",
     severity |-> "warning",
     sensor_name |-> sensor_name,
     value |-> age,
     threshold |-> Quotient(age_limit, 1),
     timestamp |-> t,
     acknowledged |-> FALSE]

(* Lines 329-332: the sensor was reported stale less than 600 s ago. *)
StaleInCooldown(st, sensor_name, t) ==
    /\ stale_key(sensor_name) \in DOMAIN st.last
    /\ t - st.last[stale_key(sensor_name)] < 600

(* Lines 322-351: the body of the loop for one critical sensor.  Neither   *)
(* _active_alerts nor _alert_history is written.                           *)
CheckStale(st, sensor_name, snapshot, age_limit, t, cbs) ==
    IF sensor_name \notin DOMAIN snapshot THEN st
    ELSE IF ~ Less(Quotient(age_limit, 1), snapshot[sensor_name].age_seconds)
    THEN st
    ELSE IF StaleInCooldown(st, sensor_name, t) THEN st
    ELSE [new_alerts |->
              Append(st.new_alerts,
                     StaleAlert(sensor_name, snapshot[sensor_name].age_seconds,
                                age_limit, t)),
          last |-> DictSet(st.last, stale_key(sensor_name), t),
          notified |-> st.notified \o NotifyAlert(cbs, stale_key(sensor_name))]

(* The loop of line 322 over the first n critical sensors. *)
RECURSIVE CheckStaleSensors(_, _, _, _, _, _)
CheckStaleSensors(st, n, snapshot, age_limit, t, cbs) ==
    IF n = 0 THEN st
    ELSE CheckStale(CheckStaleSensors(st, n - 1, snapshot, age_limit, t, cbs),
                    critical_sensors[n], snapshot, age_limit, t, cbs)

(* AlertManager.check_sensor_staleness at time t: the list returned, the   *)
(* new _last_alert_time and the callbacks invoked.                         *)
check_sensor_staleness(last, snapshot, age_limit, t, cbs) ==
    CheckStaleSensors([new_alerts |-> << >>, last |-> last,
                       notified |-> << >>],
                      Len(critical_sensors), snapshot, age_limit, t, cbs)

(* Line 276: status_code & 0x0F, the low nibble of a status that is not    *)
(* negative.                                                               *)
fault_code_of(status_code) == status_code % 16

(* Lines 279, 299 and 301: the key of the fault alert. *)
fault_key == << "fault_code" >>

(* Lines 291-297: the FAULT_CODE alert; its message is determined by the   *)
(* fault code.                                                             *)
FaultAlert(fault_code, t) ==
    [alert_type |-> "fault_code",
     severity |-> "critical",
     value |-> PyInt(fault_code),
     threshold |-> None,
     timestamp |-> t,
     acknowledged |-> FALSE]

(* Lines 285-287: a fault was announced less than 300 s ago. *)
FaultInCooldown(last, t) ==
    /\ fault_key \in DOMAIN last
    /\ t - last[fault_key] < 300

(* A dict without the key k (del d[k]). *)
DictDel(d, k) == [j \in DOMAIN d \ { k } |-> d[j]]

(* AlertManager.check_fault_code at time t: what it returns (None or the   *)
(* alert), the new _active_alerts, _alert_history and _last_alert_time,    *)
(* and the callbacks invoked.                                              *)
check_fault_code(active, history, last, status_code, t, cbs) ==
    IF fault_code_of(status_code) = 0
    THEN [result |-> None, active |-> DictDel(active, fault_key),
          history |-> history, last |-> last, notified |-> << >>]
    ELSE IF FaultInCooldown(last, t)
    THEN [result |-> None, active |-> active, history |-> history,
          last |-> last, notified |-> << >>]
    ELSE [result |-> Some(FaultAlert(fault_code_of(status_code), t)),
          active |-> DictSet(active, fault_key,
                             FaultAlert(fault_code_of(status_code), t)),
          history |-> Append(history,
                             FaultAlert(fault_code_of(status_code), t)),
          last |-> DictSet(last, fault_key, t),
          notified |-> NotifyAlert(cbs, fault_key)]

(* AlertManager.get_active_alerts: the alerts of _active_alerts. *)
get_active_alerts(active) == { active[k] : k \in DOMAIN active }

-----------------------------------------------------------------------------
(* EscapeHandler and EbusCRC called on a byte sequence *)

MaxLen == 3

CodecBytes == { 0, 1, 2, ESCAPE, SYNC }

(* test_parser.py, test_escape: the escaped input and the original. *)
EscapeTestEscaped == << 16, 169, 0, 169, 1, 32 >>

EscapeTestOriginal == << 16, 169, 170, 32 >>

(* crc.py, the quick test at the end of the file. *)
CrcTestData == << 16, 8, 181, 17, 1, 1 >>

CodecInputs ==
    SeqsUpTo(CodecBytes, MaxLen)
    \cup { EscapeTestEscaped, EscapeTestOriginal, CrcTestData }

(* No frame under way in the parser. *)
FrameIdle ==
    /\ wire = << >>
    /\ pos = 0
    /\ buffer = << >>
    /\ ret = << >>
    /\ out = << >>
    /\ trimmed = FALSE
    /\ payload = << >>
    /\ raw_data = << >>
    /\ parsed = None
    /\ pc = "idle"

InitCodec ==
    /\ bytes_in \in CodecInputs
    /\ escape_out = None
    /\ unescape_out = None
    /\ round_trip = None
    /\ calculate_out = None
    /\ calculate_alt_out = None
    /\ destuff_out = None
    /\ FrameIdle
    /\ FieldIdle
    /\ TheliaIdle
    /\ SinkIdle

EscapeCall ==
    /\ escape_out = None
    /\ escape_out' = Some(escape(bytes_in))
    /\ UNCHANGED << sink_vars, frame_vars, field_vars, thelia_vars,
                    destuff_out, bytes_in, unescape_out, round_trip,
                    calculate_out, calculate_alt_out >>

UnescapeCall ==
    /\ unescape_out = None
    /\ unescape_out' = Some(unescape(bytes_in))
    /\ UNCHANGED << sink_vars, frame_vars, field_vars, thelia_vars,
                    destuff_out, bytes_in, escape_out, round_trip,
                    calculate_out, calculate_alt_out >>

(* unescape called on what escape returned. *)
RoundTripCall ==
    /\ escape_out # None
    /\ round_trip = None
    /\ round_trip' = Some(unescape(escape_out[1]))
    /\ UNCHANGED << sink_vars, frame_vars, field_vars, thelia_vars,
                    destuff_out, bytes_in, escape_out, unescape_out,
                    calculate_out, calculate_alt_out >>

CalculateCall ==
    /\ calculate_out = None
    /\ calculate_out' = Some(calculate(bytes_in))
    /\ UNCHANGED << sink_vars, frame_vars, field_vars, thelia_vars,
                    destuff_out, bytes_in, escape_out, unescape_out, round_trip,
                    calculate_alt_out >>

CalculateAltCall ==
    /\ calculate_alt_out = None
    /\ calculate_alt_out' = Some(calculate_alt(bytes_in))
    /\ UNCHANGED << sink_vars, frame_vars, field_vars, thelia_vars,
                    destuff_out, bytes_in, escape_out, unescape_out, round_trip,
                    calculate_out >>

NextCodec ==
    \/ EscapeCall
    \/ UnescapeCall
    \/ RoundTripCall
    \/ CalculateCall
    \/ CalculateAltCall

SpecCodec == InitCodec /\ [][NextCodec]_vars

-----------------------------------------------------------------------------
(* ebus_codec.destuff and EscapeHandler.unescape called on the same bytes *)

DestuffCall ==
    /\ destuff_out = None
    /\ destuff_out' = Some(destuff(bytes_in))
    /\ UNCHANGED << sink_vars, frame_vars, field_vars, thelia_vars, bytes_in,
                    escape_out, unescape_out, round_trip, calculate_out,
                    calculate_alt_out >>

NextDestuff == UnescapeCall \/ DestuffCall

SpecDestuff == InitCodec /\ [][NextDestuff]_vars

-----------------------------------------------------------------------------
(* FieldDefinition.decode called on a field and a payload *)

MaxFieldLen == 2

FieldBytes == { 0, 38, 90, 175, 246, 255 }

(* Every field of every registered message. *)
RegistryFields ==
    UNION { { Registered[m].fields[i] : i \in 1..Len(Registered[m].fields) } :
            m \in 1..Len(Registered) }

(* Fields of the other data types, and 16-bit fields declared with their   *)
(* length.  No message declares a UINT32 field, and its values do not fit  *)
(* the integers of the model checker, so none is drawn.                    *)
OtherFields ==
    { FieldDefinition("x", o, t) :
        o \in { 0, 1 }, t \in { "INT8", "DATA1B", "BCD", "DATA2C", "INT16" } }
    \cup { WithLength(FieldDefinition("x", o, t), 2) :
             o \in { 0, 1 },
             t \in { "UINT16", "INT16", "DATA2B", "DATA2C", "STRING" } }
    \cup { [FieldDefinition("x", 0, "BITS") EXCEPT
               !.bit_position = 2, !.bit_count = 3] }

FieldDefs == RegistryFields \cup OtherFields

FieldPayloads ==
    SeqsUpTo(FieldBytes, MaxFieldLen)
    \cup { << 0, 72, 18, 128 >>, << 0, 246, 90 >>,
           << 89, 175, 35, 6, 17, 38, 255 >>,
           << 65, 0, 72, 105, 0, 128, 2, 1 >> }

InitField ==
    /\ field_def \in { Some(f) : f \in FieldDefs }
    /\ field_data \in FieldPayloads
    /\ decoded = None
    /\ FrameIdle
    /\ CodecIdle
    /\ TheliaIdle
    /\ SinkIdle

DecodeCall ==
    /\ decoded = None
    /\ decoded' = Some(decode(field_def[1], field_data))
    /\ UNCHANGED << sink_vars, frame_vars, codec_vars, thelia_vars, field_def,
                    field_data >>

NextField == DecodeCall

SpecField == InitField /\ [][NextField]_vars

-----------------------------------------------------------------------------
(* Telegrams from TelegramParser.parse handed to TheliaParser.parse *)

MaxCalls == 2

(* Registered commands, and one that is not. *)
TheliaCommands ==
    { << 5, 7 >>, << 7, 0 >>, << 5, 16 >>, << 5, 1 >>, << 7, 4 >>,
      << 181, 17 >>, << 153, 17 >> }

TheliaPayloads ==
    { << >>, << 255 >>, << 0, 72, 18 >>, << 0, 72, 18, 128 >>,
      << 89, 175, 35, 6, 17, 38, 255 >>, << 65, 0, 72, 105, 0, 128, 2, 1 >> }

(* No response, an empty one, and one byte acknowledged by the master. *)
TheliaTails ==
    { << >>, Response(<< >>, TRUE, << >>), Response(<< 85 >>, TRUE, << ACK >>) }

TheliaTelegrams ==
    { parse(Master(16, 8, c[1], c[2], d, TRUE) \o t)[1] :
        c \in TheliaCommands, d \in TheliaPayloads, t \in TheliaTails }

InitThelia ==
    /\ stats = [total |-> 0, parsed |-> 0, unknown |-> 0]
    /\ callbacks \in { << >>, << "ok" >>, << "raises", "ok" >> }
    /\ handed = None
    /\ message = None
    /\ raised = None
    /\ notified = << >>
    /\ FrameIdle
    /\ CodecIdle
    /\ FieldIdle
    /\ SinkIdle

(* The state after a TheliaParser.parse call that ended as r. *)
TheliaParsed(r) ==
    /\ stats' = r.stats
    /\ message' = r.message
    /\ raised' = r.raised
    /\ notified' = r.notified

TheliaParseCall(telegram) ==
    /\ stats.total < MaxCalls
    /\ TheliaParsed(thelia_parse(stats, callbacks, telegram))
    /\ handed' = Some(telegram)
    /\ UNCHANGED << sink_vars, frame_vars, codec_vars, field_vars, callbacks >>

NextThelia == \E telegram \in TheliaTelegrams : TheliaParseCall(telegram)

SpecThelia == InitThelia /\ [][NextThelia]_vars

-----------------------------------------------------------------------------
(* Messages handed to DataAggregator.update and read back *)

MaxUpdates == 2

MaxTime == 3

(* DataAggregator(max_age=...) *)
AgeLimits == { 2 }

(* The telegram of a query d to the boiler and its response r. *)
Answered(pb, sb, d, r) ==
    parse(Master(16, 8, pb, sb, d, TRUE) \o Response(r, TRUE, << ACK >>))[1]

(* The message of that name a caller builds for the telegram. *)
Named(name, telegram) ==
    ParsedMessage(name, telegram, EmptyDict, EmptyDict, EmptyDict)

(* B511 type 1 responses: flow and return bytes, three more, a status. *)
Type1Responses ==
    { << 90, 60, 0, 0, 0, 3 >>, << 254, 60, 0, 0, 0, 3 >>,
      << 80, 200, 0, 0, 0, 255 >>, << 255, 60, 0, 0, 0, 3 >>,
      << 0, 60, 0, 0, 0, 3 >> }

(* B511 type 0 responses: the pressure is byte 2, the status byte 7. *)
Type0Responses ==
    { << 0, 0, 15, 0, 0, 0, 0, 131 >>, << 0, 0, 41, 0, 0, 0, 0, 255 >>,
      << 0, 0, 0, 0, 0, 0, 0, 1 >> }

Type2Responses == { << 50, 20 >>, << 101, 31 >> }

(* A B504 response: a modulation of 120 and 6.25 degrees outdoors. *)
OutdoorResponses == { << 120, 0, 0, 0, 0, 0, 0, 0, 64, 6 >> }

AggregatorMessages ==
    { Named("status_temps", Answered(181, 17, << 1 >>, r)) :
        r \in Type1Responses }
    \cup { Named("status_temps", Answered(181, 17, << 0 >>, r)) :
             r \in Type0Responses }
    \cup { Named("status_temps", Answered(181, 17, << 2 >>, r)) :
             r \in Type2Responses }
    \cup { Named("modulation_outdoor", Answered(181, 4, << 0 >>, r)) :
             r \in OutdoorResponses }
    \cup { Named("temp_setpoint", Answered(181, 16, d, << 1 >>)) :
             d \in { << 0, 0, 100, 140 >> } }
    \cup { Named("room_temp", Answered(181, 9, d, << 1 >>)) :
             d \in { << 42, 200 >> } }
    \cup { Named("datetime", Answered(181, 22, d, << >>)) :
             d \in { << 0, 153, 21, 18, 6, 17, 5, 38 >> } }
    \cup { Named(n, Answered(181, 17, << 1 >>, << 90, 60, 0, 0, 0, 3 >>)) :
             n \in { "unknown", "device_id", "vaillant_status" } }

ReadNames == { "boiler.flow_temperature", "boiler.water_pressure" }

InitAggregator ==
    /\ now = 0
    /\ op = "init"
    /\ calls = 0
    /\ max_age \in AgeLimits
    /\ sensors = EmptyDict
    /\ updated = None
    /\ replaced = EmptyDict
    /\ got = None
    /\ AlertIdle
    /\ ThreadIdle
    /\ FrameIdle
    /\ CodecIdle
    /\ FieldIdle
    /\ TheliaIdle

(* One second passes. *)
Tick ==
    /\ now < MaxTime
    /\ now' = now + 1
    /\ op' = "tick"
    /\ got' = None
    /\ UNCHANGED << thread_vars, frame_vars, codec_vars, field_vars,
                    thelia_vars, calls,
                    max_age, sensors, updated, replaced, alert_vars >>

(* DataAggregator.update(msg) for a message stamped with the present time. *)
UpdateCall(msg) ==
    /\ calls < MaxUpdates
    /\ sensors' = update(sensors, msg, now)
    /\ updated' = Some([message |-> msg, timestamp |-> now])
    /\ replaced' = sensors
    /\ calls' = calls + 1
    /\ op' = "update"
    /\ got' = None
    /\ UNCHANGED << thread_vars, frame_vars, codec_vars, field_vars,
                    thelia_vars, now,
                    max_age, alert_vars >>

(* DataAggregator.get_sensor(name) *)
GetSensorCall(name) ==
    /\ got' = Some([name |-> Some(name),
                    result |-> get_sensor(sensors, max_age, now, name)])
    /\ op' = "get_sensor"
    /\ UNCHANGED << thread_vars, frame_vars, codec_vars, field_vars,
                    thelia_vars, now,
                    calls, max_age, sensors, updated, replaced, alert_vars >>

(* DataAggregator.get_all_sensors() *)
GetAllSensorsCall ==
    /\ got' = Some([name |-> None,
                    result |-> get_all_sensors(sensors, max_age, now)])
    /\ op' = "get_all_sensors"
    /\ UNCHANGED << thread_vars, frame_vars, codec_vars, field_vars,
                    thelia_vars, now,
                    calls, max_age, sensors, updated, replaced, alert_vars >>

NextAggregator ==
    \/ Tick
    \/ \E msg \in AggregatorMessages : UpdateCall(msg)
    \/ \E name \in ReadNames : GetSensorCall(name)
    \/ GetAllSensorsCall

SpecAggregator == InitAggregator /\ [][NextAggregator]_vars

-----------------------------------------------------------------------------
(* Telegrams through TheliaParser.parse into DataAggregator.update, which  *)
(* is registered as a callback of the parser (main_service.py, line 57)    *)

Unanswered(pb, sb, d) == parse(Master(16, 8, pb, sb, d, TRUE))[1]

PipelineTelegrams ==
    { Answered(181, 17, << 1 >>, r) :
        r \in { << 90, 60, 0, 0, 0, 3 >>, << 80, 120, 0, 0, 0, 255 >> } }
    \cup { Unanswered(181, 17, << 1 >>),
           Unanswered(5, 9, << 42, 2, 0, 0 >>),
           Unanswered(7, 0, << 0, 48, 21, 18, 6, 17, 5, 38 >>),
           Unanswered(153, 17, << 1 >>) }

InitPipeline ==
    /\ stats = [total |-> 0, parsed |-> 0, unknown |-> 0]
    /\ callbacks = << "update" >>
    /\ handed = None
    /\ message = None
    /\ raised = None
    /\ notified = << >>
    /\ SinkIdle
    /\ FrameIdle
    /\ CodecIdle
    /\ FieldIdle

(* A parse call that ended as r invoked aggregator.update. *)
Delivered(r) ==
    \E i \in DOMAIN r.notified : callbacks[r.notified[i].callback] = "update"

(* The aggregator after a parse call that ended as r. *)
Aggregated(r) ==
    IF Delivered(r)
    THEN /\ sensors' = update(sensors, r.message[1], now)
         /\ updated' = Some([message |-> r.message[1], timestamp |-> now])
         /\ replaced' = sensors
         /\ calls' = calls + 1
    ELSE UNCHANGED << sensors, updated, replaced, calls >>

(* parser.parse(telegram) for a telegram stamped with the present time. *)
PipelineCall(telegram) ==
    /\ stats.total < MaxCalls
    /\ TheliaParsed(thelia_parse(stats, callbacks, telegram))
    /\ handed' = Some(telegram)
    /\ Aggregated(thelia_parse(stats, callbacks, telegram))
    /\ op' = "parse"
    /\ got' = None
    /\ UNCHANGED << thread_vars, frame_vars, codec_vars, field_vars,
                    callbacks, now,
                    max_age, alert_vars >>

NextPipeline ==
    \/ Tick
    \/ \E telegram \in PipelineTelegrams : PipelineCall(telegram)
    \/ GetAllSensorsCall

SpecPipeline == InitPipeline /\ [][NextPipeline]_vars

-----------------------------------------------------------------------------
(* Sensor readings handed to AlertManager.check_sensors as time passes *)

MaxChecks == 3

MaxClock == 600

(* Seconds between two calls. *)
Waits == { 299, 300 }

(* Pressures in tenths of a bar. *)
PressureTenths == { 4, 5, 8, 9, 25, 30, 31 }

(* What get_all_sensors returns for a boiler holding one fresh sensor. *)
OneSensor(name, value, unit, description) ==
    get_all_sensors(set_sensor(EmptyDict, name, value, unit, 0, description),
                    300, 0)

AlertReadings ==
    { EmptyDict,
      OneSensor("boiler.return_temperature", round1(Quotient(110, 2)), "°C",
                "Return temperature (Rücklauf)") }
    \cup { OneSensor("boiler.water_pressure", round1(Quotient(p, 10)), "bar",
                     "System water pressure") : p \in PressureTenths }

InitAlert ==
    /\ now = 0
    /\ op = "init"
    /\ calls = 0
    /\ alert_callbacks \in { << "ok" >>, << "raises", "ok" >> }
    /\ active_alerts = EmptyDict
    /\ alert_history = << >>
    /\ last_alert_time = EmptyDict
    /\ checked = None
    /\ new_alerts = << >>
    /\ alert_notified = << >>
    /\ stale_alerts = << >>
    /\ fault_alert = << >>
    /\ AggregatorIdle
    /\ ThreadIdle
    /\ FrameIdle
    /\ CodecIdle
    /\ FieldIdle
    /\ TheliaIdle

(* Time passes between two calls. *)
Wait(seconds) ==
    /\ now + seconds <= MaxClock
    /\ now' = now + seconds
    /\ op' = "wait"
    /\ UNCHANGED << thread_vars, frame_vars, codec_vars, field_vars,
                    thelia_vars, calls,
                    aggregator_vars, alert_vars >>

(* The state after a check_sensors call that ended as r. *)
Checked(r) ==
    /\ new_alerts' = r.new_alerts
    /\ active_alerts' = r.active
    /\ alert_history' = r.history
    /\ last_alert_time' = r.last
    /\ alert_notified' = r.notified

(* AlertManager.check_sensors(readings) *)
CheckSensorsCall(readings) ==
    /\ calls < MaxChecks
    /\ Checked(check_sensors(active_alerts, alert_history, last_alert_time,
                             readings, now, alert_callbacks))
    /\ checked' = Some([sensors |-> readings, timestamp |-> now])
    /\ calls' = calls + 1
    /\ op' = "check_sensors"
    /\ UNCHANGED << thread_vars, frame_vars, codec_vars, field_vars,
                    thelia_vars, now,
                    aggregator_vars, alert_callbacks, stale_alerts,
                    fault_alert >>

NextAlert ==
    \/ \E seconds \in Waits : Wait(seconds)
    \/ \E readings \in AlertReadings : CheckSensorsCall(readings)

SpecAlert == InitAlert /\ [][NextAlert]_vars

-----------------------------------------------------------------------------
(* The alert check of the live monitor (tests/test_live.py, lines 72-83)   *)
(* over a DataAggregator that is updated as time passes                    *)

(* Seconds between two steps of the monitor. *)
MonitorWaits == { 150, 301 }

(* Pressures of 1.5 and 0.4 bar; a flow of 45 degrees with status codes    *)
(* 0x03 and 0x10.                                                          *)
MonitorMessages ==
    { Named("status_temps", Answered(181, 17, << 0 >>, r)) :
        r \in { << 0, 0, 15, 0, 0, 0, 0, 131 >>,
                << 0, 0, 4, 0, 0, 0, 0, 131 >> } }
    \cup { Named("status_temps", Answered(181, 17, << 1 >>, r)) :
             r \in { << 90, 60, 0, 0, 0, 3 >>, << 90, 60, 0, 0, 0, 16 >> } }

(* DataAggregator() and AlertManager() with on_alert registered. *)
InitMonitor ==
    /\ now = 0
    /\ op = "init"
    /\ calls = 0
    /\ max_age = 300
    /\ sensors = EmptyDict
    /\ updated = None
    /\ replaced = EmptyDict
    /\ got = None
    /\ alert_callbacks = << "ok" >>
    /\ active_alerts = EmptyDict
    /\ alert_history = << >>
    /\ last_alert_time = EmptyDict
    /\ checked = None
    /\ new_alerts = << >>
    /\ alert_notified = << >>
    /\ stale_alerts = << >>
    /\ fault_alert = None
    /\ ThreadIdle
    /\ FrameIdle
    /\ CodecIdle
    /\ FieldIdle
    /\ TheliaIdle

(* Lines 80-82: check_fault_code on the status of the snapshot, when the   *)
(* snapshot has one; r is the outcome of the two checks before it.         *)
MonitorFault(r, snapshot) ==
    IF "boiler.status_code" \in DOMAIN snapshot
    THEN check_fault_code(r.active, r.history, r.last,
                          snapshot["boiler.status_code"].value.num, now,
                          alert_callbacks)
    ELSE [result |-> None, active |-> r.active, history |-> r.history,
          last |-> r.last, notified |-> << >>]

(* Lines 76-77: check_sensors and then check_sensor_staleness, with its    *)
(* default max_age of 300, on the same snapshot.                           *)
MonitorSensors(snapshot) ==
    [checked |-> check_sensors(active_alerts, alert_history, last_alert_time,
                               snapshot, now, alert_callbacks),
     stale |-> check_sensor_staleness(
                   check_sensors(active_alerts, alert_history,
                                 last_alert_time, snapshot, now,
                                 alert_callbacks).last,
                   snapshot, 300, now, alert_callbacks)]

(* Lines 73-83: one alert check of the live monitor. *)
MonitorCheck ==
    /\ calls < MaxChecks
    /\ LET snapshot == get_all_sensors(sensors, max_age, now)
           r == MonitorSensors(snapshot)
           f == MonitorFault([active |-> r.checked.active,
                              history |-> r.checked.history,
                              last |-> r.stale.last], snapshot)
       IN /\ got' = Some([name |-> None, result |-> snapshot])
          /\ checked' = Some([sensors |-> snapshot, timestamp |-> now])
          /\ new_alerts' = r.checked.new_alerts
          /\ stale_alerts' = r.stale.new_alerts
          /\ fault_alert' =
                 IF "boiler.status_code" \in DOMAIN snapshot
                 THEN Some([status_code |->
                                snapshot["boiler.status_code"].value.num,
                            result |-> f.result])
                 ELSE None
          /\ active_alerts' = f.active
          /\ alert_history' = f.history
          /\ last_alert_time' = f.last
          /\ alert_notified' =
                 r.checked.notified \o r.stale.notified \o f.notified
    /\ calls' = calls + 1
    /\ op' = "monitor"
    /\ UNCHANGED << thread_vars, frame_vars, codec_vars, field_vars,
                    thelia_vars, now,
                    max_age, sensors, updated, replaced, alert_callbacks >>

NextMonitor ==
    \/ \E seconds \in MonitorWaits : Wait(seconds)
    \/ \E msg \in MonitorMessages : UpdateCall(msg)
    \/ MonitorCheck

SpecMonitor == InitMonitor /\ [][NextMonitor]_vars

-----------------------------------------------------------------------------
(* AlertManager.check_fault_code called with status bytes as time passes *)

(* Status bytes: no fault, faults 3 and 4, and 0x10 whose low nibble is 0. *)
StatusCodes == { 0, 3, 4, 16 }

(* AlertManager.check_fault_code(status_code) *)
CheckFaultCodeCall(status_code) ==
    /\ calls < MaxChecks
    /\ LET f == check_fault_code(active_alerts, alert_history,
                                 last_alert_time, status_code, now,
                                 alert_callbacks)
       IN /\ fault_alert' = Some([status_code |-> status_code,
                                  result |-> f.result])
          /\ active_alerts' = f.active
          /\ alert_history' = f.history
          /\ last_alert_time' = f.last
          /\ alert_notified' = f.notified
    /\ calls' = calls + 1
    /\ op' = "check_fault_code"
    /\ UNCHANGED << thread_vars, frame_vars, codec_vars, field_vars,
                    thelia_vars, now,
                    aggregator_vars, alert_callbacks, checked, new_alerts,
                    stale_alerts >>

NextFault ==
    \/ \E seconds \in Waits : Wait(seconds)
    \/ \E status_code \in StatusCodes : CheckFaultCodeCall(status_code)

SpecFault == InitAlert /\ [][NextFault]_vars

-----------------------------------------------------------------------------
(* DataAggregator.update on an ingestion thread while get_all_sensors runs *)
(* on another thread.  No lock guards _sensors: the threads interleave     *)
(* between any two dict operations.                                        *)

(* Flows of 45 and 40 degrees with a return of 30 degrees. *)
ThreadMessages ==
    { Named("status_temps", Answered(181, 17, << 1 >>, r)) :
        r \in { << 90, 60, 0, 0, 0, 3 >>, << 80, 60, 0, 0, 0, 3 >> } }

InitThreads ==
    /\ now = 0
    /\ op = "init"
    /\ calls = 0
    /\ max_age = 300
    /\ sensors = EmptyDict
    /\ updated = None
    /\ replaced = EmptyDict
    /\ got = None
    /\ order = << >>
    /\ writer = None
    /\ reader = None
    /\ committed = << EmptyDict >>
    /\ AlertIdle
    /\ FrameIdle
    /\ CodecIdle
    /\ FieldIdle
    /\ TheliaIdle

(* The ingestion thread enters update(msg). *)
BeginUpdate(msg) ==
    /\ writer = None
    /\ calls < MaxUpdates
    /\ SetSensorCalls(msg, now, Len(Type1Order)) # << >>
    /\ writer' = Some([pending |-> SetSensorCalls(msg, now, Len(Type1Order)),
                       target |-> update(sensors, msg, now)])
    /\ updated' = Some([message |-> msg, timestamp |-> now])
    /\ replaced' = sensors
    /\ calls' = calls + 1
    /\ op' = "update"
    /\ UNCHANGED << frame_vars, codec_vars, field_vars, thelia_vars, now,
                    max_age, sensors, got, alert_vars, order, reader,
                    committed >>

(* The ingestion thread makes its next _set_sensor call (lines 344-349);   *)
(* update returns after the last one.                                      *)
WriterStep ==
    /\ writer # None
    /\ sensors' = DictSet(sensors, Head(writer[1].pending).name,
                          Head(writer[1].pending).entry)
    /\ order' = IF Head(writer[1].pending).name \in DOMAIN sensors
                THEN order
                ELSE Append(order, Head(writer[1].pending).name)
    /\ IF Tail(writer[1].pending) = << >>
       THEN /\ writer' = None
            /\ committed' = Append(committed, sensors')
       ELSE /\ writer' = Some([writer[1] EXCEPT
                                   !.pending = Tail(writer[1].pending)])
            /\ UNCHANGED committed
    /\ op' = "set_sensor"
    /\ UNCHANGED << frame_vars, codec_vars, field_vars, thelia_vars, now,
                    calls, max_age, updated, replaced, got, alert_vars,
                    reader >>

(* The other thread enters get_all_sensors (lines 361-363). *)
BeginRead ==
    /\ reader = None
    /\ reader' = Some(ItemsIterator(order, now))
    /\ got' = None
    /\ op' = "items"
    /\ UNCHANGED << frame_vars, codec_vars, field_vars, thelia_vars, now,
                    calls, max_age, sensors, updated, replaced, alert_vars,
                    order, writer, committed >>

(* The other thread asks the iterator for the next item: a dict whose size *)
(* has changed since the iterator was made raises RuntimeError, an         *)
(* exhausted iterator ends the loop and the result is returned (line 372), *)
(* and otherwise the item is read.                                         *)
ReaderStep ==
    /\ reader # None
    /\ IF Len(order) # reader[1].size
       THEN /\ got' = Some([name |-> None, result |-> reader[1].result,
                            raised |-> Some("RuntimeError")])
            /\ reader' = None
            /\ op' = "get_all_sensors"
       ELSE IF reader[1].index = reader[1].size
       THEN /\ got' = Some([name |-> None, result |-> reader[1].result,
                            raised |-> None])
            /\ reader' = None
            /\ op' = "get_all_sensors"
       ELSE /\ reader' = Some(ReadItem(reader[1],
                                       order[reader[1].index + 1],
                                       sensors[order[reader[1].index + 1]],
                                       max_age))
            /\ op' = "next"
            /\ UNCHANGED got
    /\ UNCHANGED << frame_vars, codec_vars, field_vars, thelia_vars, now,
                    calls, max_age, sensors, updated, replaced, alert_vars,
                    order, writer, committed >>

NextThreads ==
    \/ \E msg \in ThreadMessages : BeginUpdate(msg)
    \/ WriterStep
    \/ BeginRead
    \/ ReaderStep

SpecThreads == InitThreads /\ [][NextThreads]_vars

-----------------------------------------------------------------------------
(* Subscribers of TheliaParser and of AlertManager, some of which raise *)

CallbackTelegrams ==
    { Unanswered(5, 9, << 42, 2, 0, 0 >>),
      Unanswered(153, 17, << 1 >>),
      Answered(181, 17, << 1 >>, << 90, 60, 0, 0, 0, 3 >>) }

CallbackReadings ==
    { OneSensor("boiler.water_pressure", round1(Quotient(p, 10)), "bar",
                "System water pressure") : p \in { 5, 9 } }

InitCallbacks ==
    /\ stats = [total |-> 0, parsed |-> 0, unknown |-> 0]
    /\ callbacks \in { << "ok" >>, << "raises", "ok" >> }
    /\ handed = None
    /\ message = None
    /\ raised = None
    /\ notified = << >>
    /\ now = 0
    /\ op = "init"
    /\ calls = 0
    /\ alert_callbacks \in { << "ok" >>, << "raises", "ok" >> }
    /\ active_alerts = EmptyDict
    /\ alert_history = << >>
    /\ last_alert_time = EmptyDict
    /\ checked = None
    /\ new_alerts = << >>
    /\ alert_notified = << >>
    /\ stale_alerts = << >>
    /\ fault_alert = << >>
    /\ AggregatorIdle
    /\ ThreadIdle
    /\ FrameIdle
    /\ CodecIdle
    /\ FieldIdle

NextCallbacks ==
    \/ \E telegram \in CallbackTelegrams : TheliaParseCall(telegram)
    \/ \E readings \in CallbackReadings : CheckSensorsCall(readings)
    \/ \E seconds \in Waits : Wait(seconds)

SpecCallbacks == InitCallbacks /\ [][NextCallbacks]_vars


-----------------------------------------------------------------------------
(* Properties of the framer (specification Spec) *)

(* The bytes fed so far. *)
Stream == SubSeq(wire, 1, pos)

(* Position of the last delimiter fed so far, 0 when there is none. *)
LastSync(w, p) ==
    IF \A i \in 1..p : w[i] # SYNC_BYTE THEN 0
    ELSE CHOOSE i \in 1..p :
             w[i] = SYNC_BYTE /\ \A j \in (i + 1)..p : w[j] # SYNC_BYTE

(* The unterminated remainder: what follows the last delimiter. *)
Remainder(w, p) == SubSeq(w, LastSync(w, p) + 1, p)

HasSync(data) == \E i \in 1..Len(data) : data[i] = SYNC_BYTE

(* The fields a well-formed payload QQ ZZ PB SB NN D.. CRC .. decodes to. *)
Decodes(t, p) ==
    /\ t.source = p[1]
    /\ t.destination = p[2]
    /\ t.primary_command = p[3]
    /\ t.secondary_command = p[4]
    /\ t.data = SubSeq(p, 6, 5 + p[5])
    /\ t.crc = p[6 + p[5]]

WellFormedPayloads ==
    { TestFrame,
      Master(16, 8, 181, 17, << SYNC >>, TRUE),
      Master(16, 8, 181, 17, << 1 >>, TRUE) \o Response(<< 85 >>, TRUE, << ACK >>) }

(* Every telegram returned so far was closed by a delimiter of the stream *)
(* and was cut from the bytes right before it, and the telegrams are      *)
(* listed in the order of those delimiters.                               *)
OutInDelimiterOrder ==
    /\ \A i \in 1..Len(out) :
          /\ out[i].closing <= pos
          /\ wire[out[i].closing] = SYNC_BYTE
          /\ out[i].closing > Len(out[i].telegram.raw_bytes)
          /\ SubSeq(wire, out[i].closing - Len(out[i].telegram.raw_bytes),
                    out[i].closing - 1) = out[i].telegram.raw_bytes
    /\ \A i \in 1..(Len(out) - 1) : out[i].closing < out[i + 1].closing

(* One feed, to an empty buffer, of two back-to-back delimited well-formed *)
(* frames returns exactly their two telegrams, the first frame first.      *)
TwoFramesStep ==
    \A p1, p2 \in WellFormedPayloads :
        (/\ buffer = << >>
         /\ pos = 0
         /\ pos' = Len(wire)
         /\ wire = Wire(TRUE, << escape(p1), escape(p2) >>, TRUE))
        => /\ Len(ret') = 2
           /\ Decodes(ret'[1], p1) /\ ret'[1].raw_bytes = escape(p1)
           /\ Decodes(ret'[2], p2) /\ ret'[2].raw_bytes = escape(p2)

(* C1: feed returns telegrams in arrival order: over any sequence of feed  *)
(* calls the telegrams returned appear in the order of their closing       *)
(* delimiters in the stream, and one feed holding two back-to-back         *)
(* delimited well-formed frames returns exactly two telegrams, first frame *)
(* first.                                                                  *)
C1_ArrivalOrder == [](OutInDelimiterOrder) /\ [][TwoFramesStep]_vars

C1_Witness ==
    /\ Len(ret) = 2
    /\ ret[1].raw_bytes = GoodEscaped
    /\ ret[2].raw_bytes = MasterSlave
    /\ out[1].closing < out[2].closing

StartsWith(list, whole) ==
    Len(whole) <= Len(list) /\ SubSeq(list, 1, Len(whole)) = whole

(* A feed of data on top of the remainder rem returned the list returned:  *)
(* nothing when data holds no delimiter, else a list that begins with what *)
(* one call with the whole frame and its delimiter returns from a fresh    *)
(* parser.                                                                 *)
PartialFrameOk(data, rem, returned) ==
    IF ~HasSync(data) THEN returned = << >>
    ELSE StartsWith(returned,
                    Telegrams(feed(<< >>,
                                   rem \o SubSeq(data, 1, IndexSync(data) + 1)
                                  ).telegrams))

PartialFrameStep ==
    (pos' > pos /\ pos - LastSync(wire, pos) <= MaxBuffer) =>
        PartialFrameOk(SubSeq(wire, pos + 1, pos'), Remainder(wire, pos), ret')

(* An unterminated remainder of at most 512 bytes is exactly the buffer. *)
RemainderKept ==
    Len(Remainder(wire, pos)) <= MaxBuffer => buffer = Remainder(wire, pos)

(* C2: partial-frame retention: while the bytes fed so far end in a frame  *)
(* without its closing delimiter (at most 512 bytes of it), feed returns   *)
(* no telegram for it and the buffer holds exactly those bytes; the feed   *)
(* that supplies the rest and the delimiter returns the telegram that one  *)
(* call with the whole frame returns.                                      *)
C2_PartialFrameRetention == [](RemainderKept) /\ [][PartialFrameStep]_vars

C2_Witness ==
    /\ pos > 0
    /\ ret = << >>
    /\ buffer # << >>
    /\ buffer = Remainder(wire, pos)
    /\ Len(buffer) < Len(GoodEscaped)
    /\ buffer = SubSeq(GoodEscaped, 1, Len(buffer))
    /\ out # << >>

(* What one feed call of the whole stream returns from a fresh parser. *)
WholeStream == Telegrams(feed(<< >>, Stream).telegrams)

(* C3 as stated: for every stream and every chunking, the lists returned   *)
(* chunk by chunk, concatenated, equal the list one call with the whole    *)
(* stream returns, also with more than 512 bytes between two delimiters.   *)
C3_ChunkIndependenceAlways == Telegrams(out) = WholeStream

(* C3 amended: the same, for the chunkings in which no feed call leaves an *)
(* unterminated remainder longer than 512 bytes (the overflow guard never  *)
(* discards bytes).                                                        *)
C3_ChunkIndependence == ~trimmed => Telegrams(out) = WholeStream

C3_Witness ==
    /\ ~trimmed
    /\ pos = Len(wire)
    /\ Len(ret) >= 1
    /\ Len(out) > Len(ret)

(* The delimiters fed so far that close a frame of at least one byte. *)
Delimited(w, p) ==
    { c \in 2..p : w[c] = SYNC_BYTE /\ w[c - 1] # SYNC_BYTE }

(* The frame closed by the delimiter at c. *)
FrameBefore(w, c) == SubSeq(w, LastSync(w, c - 1) + 1, c - 1)

(* A telegram was returned for the frame closed at c. *)
Returned(c) == \E i \in 1..Len(out) : out[i].closing = c

(* The telegram t was returned for the frame closed at c. *)
ReturnedAs(c, t) ==
    \E i \in 1..Len(out) : out[i].closing = c /\ out[i].telegram = t

(* A frame closed before c failed structural parsing. *)
FollowsBad(w, c) ==
    \E b \in Delimited(w, c - 1) : parse(FrameBefore(w, b)) = None

(* The frame closed at c, whose parse is result: nothing returned for it   *)
(* when it fails structural parsing, and its telegram returned when it is  *)
(* well formed and follows a frame that failed.                            *)
Resynchronised(w, c, result) ==
    /\ result = None => ~Returned(c)
    /\ (result # None /\ FollowsBad(w, c)) => ReturnedAs(c, result[1])

(* C9 as stated: for any byte stream and any chunking, a delimited frame   *)
(* that fails structural parsing contributes no telegram, and every        *)
(* well-formed delimited frame that follows it is returned by feed,        *)
(* whatever its length.                                                    *)
C9_ResynchronisationAlways ==
    \A c \in Delimited(wire, pos) :
        Resynchronised(wire, c, parse(FrameBefore(wire, c)))

(* C9 amended: the same for the delimited frames of at most 512 bytes on   *)
(* the wire: one that fails structural parsing contributes no telegram,    *)
(* and every well-formed one that follows it is returned by feed.          *)
C9_Resynchronisation ==
    \A c \in Delimited(wire, pos) :
        Len(FrameBefore(wire, c)) <= MaxBuffer =>
            Resynchronised(wire, c, parse(FrameBefore(wire, c)))

C9_Witness ==
    /\ wire = Wire(TRUE, << IncompleteFrame, GoodEscaped >>, TRUE)
    /\ pos = Len(wire)
    /\ Len(out) = 1
    /\ ret = Telegrams(out)
    /\ ret[1].raw_bytes = GoodEscaped
    /\ ret[1].valid
    /\ FollowsBad(wire, out[1].closing)
    /\ buffer = << >>

(* No delimiter among the bytes. *)
NoSyncIn(buf) == \A i \in 1..Len(buf) : buf[i] # SYNC_BYTE

(* C33: after every feed call the retained buffer holds no delimiter byte  *)
(* 0xAA and at most 512 bytes, whatever was fed in whatever chunking.      *)
C33_BufferInvariant == NoSyncIn(buffer) /\ Len(buffer) <= MaxBuffer

(* A feed that stripped a delimiter left a buffer of exactly 512 bytes. *)
C33_Witness ==
    /\ HasSync(Stream)
    /\ Len(buffer) = MaxBuffer
    /\ NoSyncIn(buffer)

(* The last TrimTo bytes of a remainder longer than MaxBuffer, and the     *)
(* whole of a shorter one.                                                 *)
NewestOf(rem) ==
    IF Len(rem) > MaxBuffer
    THEN SubSeq(rem, Len(rem) - TrimTo + 1, Len(rem))
    ELSE rem

(* A feed that made the buffer all leave rem unterminated: the buffer is   *)
(* the newest part of rem and the telegrams returned are those of the      *)
(* bytes before rem.                                                       *)
TrimmedTo(all, rem, kept, returned) ==
    /\ kept = NewestOf(rem)
    /\ returned = Telegrams(feed(<< >>, SubSeq(all, 1, Len(all) - Len(rem))
                                ).telegrams)

OverflowStep ==
    pos' > pos =>
        TrimmedTo(buffer \o SubSeq(wire, pos + 1, pos'),
                  Remainder(buffer \o SubSeq(wire, pos + 1, pos'),
                            Len(buffer) + pos' - pos),
                  buffer', ret')

(* C34: when a feed leaves an unterminated remainder longer than 512       *)
(* bytes the buffer afterwards is exactly the last 256 bytes of that       *)
(* remainder, in order, and the call returns only the telegrams of the     *)
(* bytes before the remainder; a remainder of 512 bytes or fewer is kept   *)
(* whole.                                                                  *)
C34_OverflowKeepsNewest == [][OverflowStep]_vars

(* 513 bytes without a delimiter were fed at once and the last 256 kept. *)
C34_Witness ==
    /\ wire = Wire(FALSE, << LongJunk >>, TRUE)
    /\ pos = Len(LongJunk)
    /\ trimmed
    /\ ret = << >>
    /\ buffer = SubSeq(LongJunk, Len(LongJunk) - TrimTo + 1, Len(LongJunk))

-----------------------------------------------------------------------------
(* Properties of parse and of one frame fed (specification SpecParse) *)

(* p is QQ ZZ PB SB NN D0..D(NN-1) CRC and nothing more. *)
WellFormedMaster(p) == Len(p) >= 6 /\ Len(p) = 5 + p[5] + 1

(* p holds at least QQ ZZ PB SB NN D0..D(NN-1) CRC. *)
StructurallyComplete(p) == Len(p) >= 6 /\ Len(p) >= 5 + p[5] + 1

(* The master checksum of a structurally complete p is the right one. *)
MasterChecksumOk(p) == p[6 + p[5]] = calculate(SubSeq(p, 1, 5 + p[5]))

(* The bytes of a structurally complete p after its master checksum. *)
AfterMaster(p) == SubSeq(p, 7 + p[5], Len(p))

(* The unescaped frame of the call. *)
Unescaped == unescape(raw_data)

(* C4: delimiter + escape(p) + delimiter fed to an empty parser, p being   *)
(* QQ ZZ PB SB NN D0..D(NN-1) CRC, returns exactly one telegram with       *)
(* source QQ, destination ZZ, command PB SB, data D0..D(NN-1), crc CRC,    *)
(* and valid exactly when CRC = checksum(QQ..D(NN-1)); the frame of        *)
(* test_telegram_parser gives source 0x10, destination 0xFE, command       *)
(* 05 07 and data 00 48 12 80.                                             *)
C4_WellFormedFrameDecoding ==
    (pc = "fed" /\ WellFormedMaster(payload) /\ raw_data = escape(payload)) =>
        /\ Len(ret) = 1
        /\ Decodes(ret[1], payload)
        /\ ret[1].valid = MasterChecksumOk(payload)
        /\ payload = TestFrame =>
              /\ ret[1].source = 16
              /\ ret[1].destination = 254
              /\ ret[1].primary_command = 5
              /\ ret[1].secondary_command = 7
              /\ ret[1].data = << 0, 72, 18, 128 >>

C4_Witness ==
    /\ pc = "fed"
    /\ payload = Master(16, 8, 181, 17, << SYNC, ESCAPE >>, TRUE)
    /\ raw_data = escape(payload)
    /\ Len(ret) = 1
    /\ ret[1].valid
    /\ ret[1].data = << SYNC, ESCAPE >>

(* C5: a telegram returned by parse has valid = TRUE only if the master    *)
(* checksum matches and, when a response checksum was extracted, it equals *)
(* checksum([response_length] + response_data).                            *)
C5_ValidMeansAllChecksumsMatch ==
    (pc = "parsed" /\ parsed # None /\ parsed[1].valid) =>
        /\ parsed[1].crc =
              calculate(<< parsed[1].source, parsed[1].destination,
                           parsed[1].primary_command,
                           parsed[1].secondary_command,
                           Len(parsed[1].data) >> \o parsed[1].data)
        /\ parsed[1].response_crc # None =>
              parsed[1].response_crc[1] =
                  calculate(<< Len(parsed[1].response_data[1]) >>
                            \o parsed[1].response_data[1])

(* C6: a structurally complete frame whose master checksum does not match  *)
(* is still returned by parse and by feed, with valid and crc_valid FALSE  *)
(* and source, destination, command and data populated.                    *)
C6_BadChecksumStillReturned ==
    (StructurallyComplete(Unescaped) /\ ~MasterChecksumOk(Unescaped)) =>
        /\ pc = "parsed" =>
              /\ parsed # None
              /\ ~parsed[1].valid /\ ~parsed[1].crc_valid
              /\ Decodes(parsed[1], Unescaped)
        /\ (pc = "fed" /\ ~HasSync(raw_data)) =>
              /\ Len(ret) = 1
              /\ ~ret[1].valid /\ ~ret[1].crc_valid
              /\ Decodes(ret[1], Unescaped)

C6_Witness ==
    /\ pc = "fed"
    /\ payload = TestFrame
    /\ raw_data = TestFrame
    /\ Len(ret) = 1
    /\ ~ret[1].crc_valid
    /\ ret[1].data = << 0, 72, 18, 128 >>

(* C7: parse returns no telegram when the unescaped frame is shorter than  *)
(* 6 bytes or shorter than 5 + data[4] + 1 bytes, and returns a telegram   *)
(* in every other case.                                                    *)
C7_StructuralRejection ==
    pc = "parsed" => ((parsed = None) <=> ~StructurallyComplete(Unescaped))

C7_Witness ==
    /\ pc = "parsed"
    /\ parsed = None
    /\ Len(Unescaped) >= 6
    /\ Len(Unescaped) < 5 + Unescaped[5] + 1

(* The slave response of a structurally complete p, sent to a slave, is    *)
(* truncated: ACK follows the master checksum, and then fewer bytes than   *)
(* the response length and its checksum need.                              *)
TruncatedResponse(p) ==
    /\ StructurallyComplete(p)
    /\ p[2] # BROADCAST_ADDR
    /\ Len(AfterMaster(p)) >= 1
    /\ AfterMaster(p)[1] = ACK
    /\ \/ Len(AfterMaster(p)) < 2
       \/ Len(AfterMaster(p)) < 2 + AfterMaster(p)[2] + 1

(* C8: a frame whose slave response is truncated (ACK after the master     *)
(* checksum, then fewer bytes than the response length and its checksum    *)
(* require) yields no telegram.                                            *)
C8_TruncatedResponseYieldsNothing ==
    (pc = "parsed" /\ TruncatedResponse(Unescaped)) => parsed = None

(* What parse does with such a frame (lines 292-298, then 275-276): the    *)
(* telegram is returned with response_data, response_crc and master_ack    *)
(* unset, valid following the master checksum alone, type MASTER_SLAVE and *)
(* slave_ack = ACK.                                                        *)
TruncatedResponseKeepsMaster ==
    (pc = "parsed" /\ TruncatedResponse(Unescaped)) =>
        /\ parsed # None
        /\ Decodes(parsed[1], Unescaped)
        /\ parsed[1].response_data = None
        /\ parsed[1].response_crc = None
        /\ parsed[1].master_ack = None
        /\ parsed[1].valid = MasterChecksumOk(Unescaped)
        /\ parsed[1].telegram_type = "MASTER_SLAVE"
        /\ parsed[1].slave_ack = Some(ACK)

(* The slave response of a structurally complete p is all there: ACK, the  *)
(* response length, that many bytes and the response checksum.             *)
CompleteResponse(p) ==
    /\ Len(AfterMaster(p)) >= 2
    /\ AfterMaster(p)[1] = ACK
    /\ Len(AfterMaster(p)) >= 2 + AfterMaster(p)[2] + 1

(* The telegram t of a frame to a slave whose bytes after the master       *)
(* checksum are after (at least one).                                      *)
HandshakeHandled(t, after) ==
    /\ t.slave_ack = Some(after[1])
    /\ after[1] # ACK =>
          /\ t.response_data = None
          /\ t.response_crc = None
          /\ t.master_ack = None
    /\ (after[1] = ACK /\ Len(after) >= 2 /\ Len(after) >= 2 + after[2] + 1) =>
          /\ t.response_data = Some(SubSeq(after, 3, 2 + after[2]))
          /\ t.response_crc = Some(after[3 + after[2]])
          /\ t.master_ack = IF Len(after) >= 4 + after[2]
                             THEN Some(after[4 + after[2]])
                             ELSE None

(* C11: when the byte after the master checksum is not ACK the telegram    *)
(* carries slave_ack and response_data, response_crc and master_ack stay   *)
(* unset; when it is ACK and a complete response follows, the byte after   *)
(* the response checksum, if present, is stored as master_ack, which is    *)
(* unset otherwise.                                                        *)
C11_SlaveHandshake ==
    (/\ pc = "parsed"
     /\ StructurallyComplete(Unescaped)
     /\ Unescaped[2] # BROADCAST_ADDR
     /\ Len(AfterMaster(Unescaped)) >= 1) =>
        /\ parsed # None
        /\ HandshakeHandled(parsed[1], AfterMaster(Unescaped))

C11_Witness ==
    /\ pc = "parsed"
    /\ parsed # None
    /\ CompleteResponse(Unescaped)
    /\ parsed[1].slave_ack = Some(ACK)
    /\ parsed[1].response_data = Some(<< 85 >>)
    /\ parsed[1].master_ack = Some(NAK)

(* C10: the type is BROADCAST exactly when destination = 0xFE, and then    *)
(* no slave field is set even if bytes follow the master checksum;         *)
(* otherwise it is MASTER_SLAVE exactly when at least one byte follows     *)
(* the master checksum, and MASTER_MASTER otherwise.                       *)
C10_KindClassification ==
    (pc = "parsed" /\ parsed # None) =>
        /\ (parsed[1].telegram_type = "BROADCAST")
              <=> (Unescaped[2] = BROADCAST_ADDR)
        /\ Unescaped[2] = BROADCAST_ADDR =>
              /\ parsed[1].slave_ack = None
              /\ parsed[1].response_data = None
              /\ parsed[1].response_crc = None
              /\ parsed[1].master_ack = None
        /\ Unescaped[2] # BROADCAST_ADDR =>
              /\ (parsed[1].telegram_type = "MASTER_SLAVE")
                    <=> (Len(AfterMaster(Unescaped)) >= 1)
              /\ (parsed[1].telegram_type = "MASTER_MASTER")
                    <=> (Len(AfterMaster(Unescaped)) = 0)

C10_Witness ==
    /\ pc = "parsed"
    /\ parsed # None
    /\ parsed[1].telegram_type = "BROADCAST"
    /\ Len(AfterMaster(Unescaped)) >= 2

(* The payload escaped, put between two delimiters. *)
Framed(data) == << SYNC_BYTE >> \o data \o << SYNC_BYTE >>

(* What feed returns for one frame candidate: its telegram, if it has one. *)
TelegramOf(candidate) ==
    IF parse(candidate) = None THEN << >> ELSE << parse(candidate)[1] >>

(* The escaped payload holds no delimiter, the framer cuts it from between *)
(* its delimiters as one candidate, and the feed call returned what parse  *)
(* makes of that candidate and kept nothing.                               *)
EscapedIsOneFrame ==
    /\ NoSyncIn(raw_data)
    /\ raw_telegrams(Framed(raw_data)) = << raw_data >>
    /\ ret = TelegramOf(raw_data)
    /\ buffer = << >>

(* C35 as stated: for every byte sequence b, escape(b) holds no 0xAA and,  *)
(* put between two delimiters, is extracted as the single frame candidate  *)
(* escape(b).                                                              *)
C35_EscapedIsOneFrameAlways ==
    (pc = "fed" /\ raw_data = escape(payload)) => EscapedIsOneFrame

(* C35 amended: for every byte sequence b, escape(b) holds no 0xAA; for    *)
(* every b that is not empty, escape(b) put between two delimiters is      *)
(* extracted as the single frame candidate escape(b).  Between the         *)
(* delimiters of an empty b the framer finds no candidate.                 *)
C35_EscapedNeverDelimits ==
    (pc = "fed" /\ raw_data = escape(payload)) =>
        /\ NoSyncIn(raw_data)
        /\ (payload # << >> => EscapedIsOneFrame)
        /\ (payload = << >> => raw_telegrams(Framed(raw_data)) = << >>)

(* A payload that holds a delimiter byte was escaped, fed between two      *)
(* delimiters and returned as the telegram of its escaped bytes.           *)
C35_Witness ==
    /\ pc = "fed"
    /\ HasSync(payload)
    /\ raw_data = escape(payload)
    /\ Len(ret) = 1
    /\ ret[1].raw_bytes = raw_data

-----------------------------------------------------------------------------
(* Properties of EscapeHandler and EbusCRC (specification SpecCodec) *)

(* C12: for every byte sequence b, also with 0xAA and 0xA9 in it,          *)
(* unescape(escape(b)) = b.                                                *)
C12_EscapeRoundTrip == round_trip # None => round_trip[1] = bytes_in

C12_Witness ==
    /\ bytes_in = << SYNC, ESCAPE, 0 >>
    /\ escape_out = Some(<< ESCAPE, 1, ESCAPE, 0, 0 >>)
    /\ round_trip = Some(bytes_in)

(* What unescaping d gives, read off its front: A9 00 is A9, A9 01 is AA,  *)
(* and any other byte, an A9 before another byte or at the end included,   *)
(* stands for itself, the byte after it being read next.                   *)
RECURSIVE Unstuffed(_)
Unstuffed(d) ==
    IF d = << >> THEN << >>
    ELSE IF Len(d) >= 2 /\ d[1] = 169 /\ d[2] = 0
         THEN << 169 >> \o Unstuffed(SubSeq(d, 3, Len(d)))
    ELSE IF Len(d) >= 2 /\ d[1] = 169 /\ d[2] = 1
         THEN << 170 >> \o Unstuffed(SubSeq(d, 3, Len(d)))
    ELSE << d[1] >> \o Unstuffed(Tail(d))

(* C13: unescape maps A9 00 to A9 and A9 01 to AA and never drops an       *)
(* unrecognised escape: an A9 followed by any other byte, or an A9 that is *)
(* the last byte, is emitted literally and the following byte is then      *)
(* processed normally; 10 A9 00 A9 01 20 gives 10 A9 AA 20.                *)
C13_UnescapeKeepsUnrecognised ==
    unescape_out # None =>
        /\ unescape_out[1] = Unstuffed(bytes_in)
        /\ bytes_in = EscapeTestEscaped => unescape_out[1] = EscapeTestOriginal

C13_Witness ==
    /\ bytes_in = << ESCAPE, 2, ESCAPE >>
    /\ unescape_out = Some(<< ESCAPE, 2, ESCAPE >>)

(* C14: for every byte sequence b the table-driven calculate(b) equals the *)
(* bit-serial calculate_alt(b).                                            *)
C14_CrcStrategiesAgree ==
    (calculate_out # None /\ calculate_alt_out # None) =>
        calculate_out = calculate_alt_out

C14_Witness ==
    /\ bytes_in = CrcTestData
    /\ calculate_out = Some(137)
    /\ calculate_alt_out = Some(137)

-----------------------------------------------------------------------------
(* Properties of FieldDefinition.decode (specification SpecField) *)

(* decode was called and the field's offset lies within the payload. *)
DecodedAtOffset == decoded # None /\ field_def[1].offset < Len(field_data)

(* The byte at the field's offset. *)
RawByte == field_data[field_def[1].offset + 1]

(* The value v is the number n/d. *)
IsNumber(v, n, d) ==
    v # None /\ v[1].type \in { "int", "float" } /\ v[1].num * d = n * v[1].den

(* C15: a BCD byte whose two nibbles are both at most 9 decodes to         *)
(* hi*10+lo (0x26 gives 26); a byte with either nibble greater than 9      *)
(* (0xAF) decodes to absent, never to a raw or computed number.            *)
C15_BcdDecoding ==
    (DecodedAtOffset /\ field_def[1].data_type = "BCD") =>
        /\ (RawByte \div 16 <= 9 /\ RawByte % 16 <= 9) =>
              IsNumber(decoded[1], (RawByte \div 16) * 10 + (RawByte % 16), 1)
        /\ (RawByte \div 16 > 9 \/ RawByte % 16 > 9) => decoded[1] = None
        /\ RawByte = 38 => IsNumber(decoded[1], 26, 1)

(* The data types read from the one byte at the offset as a number. *)
OneByteTypes == { "UINT8", "INT8", "DATA1B", "DATA1C", "BCD" }

(* C16: a one-byte field whose raw byte is 0xFF decodes to absent when     *)
(* sentinel-skip is enabled for the field and to 255 when it is disabled.  *)
(* FieldDefinition has no attribute that disables it, so it is enabled,    *)
(* as by default, for every field.                                         *)
C16_SentinelSkipped ==
    (/\ DecodedAtOffset
     /\ field_def[1].data_type \in OneByteTypes
     /\ RawByte = 255) => decoded[1] = None

(* The 16-bit data types. *)
TwoByteTypes == { "UINT16", "INT16", "DATA2B", "DATA2C" }

(* C17: a 16-bit field (UINT16, INT16, DATA2B, DATA2C) decodes to absent   *)
(* unless two bytes are available at its offset; a DATA2B field at offset  *)
(* 0, as the registry declares it, decodes to absent on a 1-byte payload.  *)
C17_TwoBytesRequired ==
    (/\ decoded # None
     /\ field_def[1].data_type \in TwoByteTypes
     /\ field_def[1].offset + 2 > Len(field_data)) => decoded[1] = None

(* The 16-bit two's-complement value of the bytes lo, hi. *)
Signed16(lo, hi) ==
    IF lo + 256 * hi >= 32768 THEN lo + 256 * hi - 65536 ELSE lo + 256 * hi

(* C18: DATA1C decodes an unsigned byte v to v/2 (0x5A gives 45.0) and     *)
(* DATA2B decodes two little-endian bytes as a two's-complement 16-bit     *)
(* value s to s/256 (bytes 00 F6, s = -2560, give -10.0).                  *)
C18_ScaledDecoding ==
    DecodedAtOffset =>
        /\ field_def[1].data_type = "DATA1C" =>
              /\ IsNumber(decoded[1], RawByte, 2)
              /\ RawByte = 90 => IsNumber(decoded[1], 45, 1)
        /\ (/\ field_def[1].data_type = "DATA2B"
            /\ field_def[1].offset + 2 <= Len(field_data)) =>
              /\ IsNumber(decoded[1],
                          Signed16(RawByte,
                                   field_data[field_def[1].offset + 2]), 256)
              /\ (RawByte = 0 /\ field_data[field_def[1].offset + 2] = 246) =>
                    IsNumber(decoded[1], -10, 1)

C18_Witness ==
    /\ field_def = Some(msg_outside_temp.fields[1])
    /\ field_data = << 0, 246 >>
    /\ decoded = Some(Some(PyFloat(-10, 1)))


(* The definition registered for the command of the telegram handed to     *)
(* TheliaParser.parse, if any.                                             *)
HandedDefinition ==
    get_message_definition(handed[1].primary_command,
                           handed[1].secondary_command)

(* A field of the registered message is in the query map exactly when it   *)
(* decodes from telegram.data, and then with its decoded value.            *)
FieldInMap(f, data, query_data) ==
    IF decode(f, data) = None THEN f.name \notin DOMAIN query_data
    ELSE /\ f.name \in DOMAIN query_data
         /\ query_data[f.name] = decode(f, data)[1]

FieldsIndependent ==
    \A i \in 1..Len(HandedDefinition[1].fields) :
        FieldInMap(HandedDefinition[1].fields[i], handed[1].data,
                   message[1].query_data)

(* Whenever parse returns for a registered command, each field is decoded  *)
(* on its own.                                                             *)
FieldsIndependentWhenReturned ==
    (handed # None /\ HandedDefinition # None /\ message # None)
        => FieldsIndependent

(* C19: for a registered command, TheliaParser.parse yields an output map  *)
(* from which every field that is absent or fails to decode is omitted and *)
(* in which every other field of the message is present with its value.   *)
C19_PerFieldIndependence ==
    (handed # None /\ HandedDefinition # None)
        => (message # None /\ FieldsIndependent)

(* C20: TheliaParser.parse returns a ParsedMessage for every telegram and  *)
(* never raises, also when the telegram carries a non-empty slave          *)
(* response; for a registered command the query map is the one decoded     *)
(* from telegram.data.                                                     *)
C20_ParseAlwaysReturns ==
    handed # None
        => /\ raised = None
           /\ message # None
           /\ HandedDefinition # None
                  => message[1].query_data
                       = DecodeFields(HandedDefinition[1].fields,
                                      handed[1].data,
                                      Len(HandedDefinition[1].fields)).values

(* The lower-case hex text of a byte sequence, two digits per byte. *)
HexText(b) ==
    [i \in 1..(2 * Len(b)) |->
        IF i % 2 = 1 THEN HexDigits[(b[(i + 1) \div 2] \div 16) + 1]
        ELSE HexDigits[(b[i \div 2] % 16) + 1]]

(* Every registered callback was called once, in registration order. *)
AllNotified ==
    /\ Len(notified) = Len(callbacks)
    /\ \A i \in 1..Len(callbacks) : notified[i].callback = i

(* C21: a telegram with an unregistered command comes back as a message    *)
(* named "unknown" whose query map holds the hex of telegram.data and      *)
(* whose response map holds the hex of a non-empty response_data, and      *)
(* every subscriber is notified of it.                                     *)
C21_UnknownPassThrough ==
    (handed # None /\ HandedDefinition = None)
        => /\ raised = None
           /\ message # None
           /\ message[1].name = "unknown"
           /\ DOMAIN message[1].query_data = { "raw" }
           /\ message[1].query_data["raw"] = PyStr(HexText(handed[1].data))
           /\ Truthy(handed[1].response_data)
                  => /\ DOMAIN message[1].response_data = { "raw" }
                     /\ message[1].response_data["raw"]
                            = PyStr(HexText(handed[1].response_data[1]))
           /\ AllNotified

C21_Witness ==
    /\ handed # None
    /\ HandedDefinition = None
    /\ Truthy(handed[1].response_data)
    /\ handed[1].data # << >>
    /\ message # None
    /\ Len(notified) = 2

(* The age of a stored sensor at the present time. *)
Age(name) == now - sensors[name].timestamp

(* What get_sensor has just returned for a stored sensor: its value while  *)
(* its age is at most max_age, and None, as for a name never set, after.   *)
GetSensorFresh ==
    (got # None /\ got[1].name # None /\ got[1].name[1] \in DOMAIN sensors)
        => IF Age(got[1].name[1]) <= max_age
           THEN got[1].result = Some(sensors[got[1].name[1]].value)
           ELSE got[1].result = None

(* What get_all_sensors has just returned: exactly the stored sensors      *)
(* whose age is at most max_age, each with its value.                      *)
GetAllSensorsFresh ==
    (got # None /\ got[1].name = None)
        => /\ DOMAIN got[1].result
                  = { name \in DOMAIN sensors : Age(name) <= max_age }
           /\ \A name \in DOMAIN got[1].result :
                  got[1].result[name].value = sensors[name].value

(* C23: a sensor written at t0 is returned by get_sensor and listed by     *)
(* get_all_sensors while now - t0 <= max_age, and is absent from both, as  *)
(* if never set, once now - t0 > max_age.                                  *)
C23_Staleness == GetSensorFresh /\ GetAllSensorsFresh

C23_Witness ==
    /\ got # None
    /\ got[1].name = None
    /\ \E name \in DOMAIN sensors :
           Age(name) = max_age + 1 /\ name \notin DOMAIN got[1].result
    /\ \E name \in DOMAIN sensors :
           Age(name) = max_age - 1 /\ name \in DOMAIN got[1].result

(* The query and response bytes of the message of the last update call. *)
UpdatedData == updated[1].message.raw_telegram.data

UpdatedResp == OrEmpty(updated[1].message.raw_telegram.response_data)

UpdatedIs(name) == updated # None /\ updated[1].message.name = name

(* The message of the last update call is a B511 answer of that type. *)
UpdatedType(type, resp_len) ==
    /\ UpdatedIs("status_temps")
    /\ Len(UpdatedData) >= 1
    /\ UpdatedData[1] = type
    /\ Len(UpdatedResp) >= resp_len

(* byte / 2 lies outside lo..hi, the ends included or not. *)
HalfOutside(byte, lo, hi, open) ==
    IF open THEN byte <= 2 * lo \/ byte >= 2 * hi
    ELSE byte < 2 * lo \/ byte > 2 * hi

(* The sensors whose quantity in the message of the last update call lies  *)
(* outside its plausibility bounds: flow and return temperature in         *)
(* (0, 100), pressure in [0.1, 4.0], modulation up to 100, outdoor cutoff  *)
(* in [5, 30], target flow in [20, 80], hot water setpoint in [30, 65],    *)
(* room temperature in [5, 35].                                            *)
Implausible ==
    { n \in { "boiler.flow_temperature" } :
        UpdatedType(1, 6) /\ HalfOutside(UpdatedResp[1], 0, 100, TRUE) }
    \cup { n \in { "boiler.return_temperature" } :
        UpdatedType(1, 6) /\ HalfOutside(UpdatedResp[2], 0, 100, TRUE) }
    \cup { n \in { "boiler.water_pressure" } :
        UpdatedType(0, 8) /\ (UpdatedResp[3] < 1 \/ UpdatedResp[3] > 40) }
    \cup { n \in { "boiler.burner_modulation" } :
        \/ UpdatedType(2, 2) /\ UpdatedResp[1] > 100
        \/ /\ UpdatedIs("modulation_outdoor")
           /\ Len(UpdatedResp) >= 10
           /\ UpdatedResp[1] > 100 }
    \cup { n \in { "mipro.outdoor_cutoff" } :
        UpdatedType(2, 2) /\ (UpdatedResp[2] < 5 \/ UpdatedResp[2] > 30) }
    \cup { n \in { "mipro.target_flow_temp" } :
        /\ UpdatedIs("temp_setpoint")
        /\ Len(UpdatedData) >= 4
        /\ HalfOutside(UpdatedData[3], 20, 80, FALSE) }
    \cup { n \in { "mipro.dhw_setpoint" } :
        /\ UpdatedIs("temp_setpoint")
        /\ Len(UpdatedData) >= 4
        /\ HalfOutside(UpdatedData[4], 30, 65, FALSE) }
    \cup { n \in { "mipro.room_temperature" } :
        /\ UpdatedIs("room_temp")
        /\ Len(UpdatedData) >= 2
        /\ HalfOutside(UpdatedData[1], 5, 35, FALSE) }

(* The stored entry of that name is as it was before the last update. *)
Retained(name) ==
    IF name \in DOMAIN replaced
    THEN name \in DOMAIN sensors /\ sensors[name] = replaced[name]
    ELSE name \notin DOMAIN sensors

(* C24: when a quantity of the message handed to DataAggregator.update     *)
(* lies outside its plausibility bounds, the stored entry of its sensor,   *)
(* value and timestamp, is left as it was before the update.               *)
C24_PlausibilityRejection ==
    updated # None => \A name \in Implausible : Retained(name)

C24_Witness ==
    /\ updated # None
    /\ \E name \in Implausible :
           /\ name \in DOMAIN replaced
           /\ replaced[name].timestamp < updated[1].timestamp
    /\ \E name \in DOMAIN sensors : sensors[name].timestamp = updated[1].timestamp

(* C25: whenever DataAggregator holds boiler.delta_t written at a          *)
(* timestamp, it holds boiler.flow_temperature and                         *)
(* boiler.return_temperature written at that same timestamp and delta_t is *)
(* their difference, so that a flow or return reading rejected as          *)
(* implausible never contributes to a stored delta_t.                      *)
C25_DeltaTConsistency ==
    "boiler.delta_t" \in DOMAIN sensors
        => /\ "boiler.flow_temperature" \in DOMAIN sensors
           /\ "boiler.return_temperature" \in DOMAIN sensors
           /\ sensors["boiler.flow_temperature"].timestamp
                  = sensors["boiler.delta_t"].timestamp
           /\ sensors["boiler.return_temperature"].timestamp
                  = sensors["boiler.delta_t"].timestamp
           /\ sensors["boiler.delta_t"].value.num
                  = sensors["boiler.flow_temperature"].value.num
                        - sensors["boiler.return_temperature"].value.num

(* The telegram handed to the parser asks for B511 type 1 and carries a    *)
(* response of at least 6 bytes.                                           *)
HandedStatusType1 ==
    /\ handed # None
    /\ handed[1].primary_command = 181
    /\ handed[1].secondary_command = 17
    /\ Len(handed[1].data) >= 1
    /\ handed[1].data[1] = 1
    /\ Len(OrEmpty(handed[1].response_data)) >= 6

(* The byte is not 0xFF and its half lies strictly between 0 and 100. *)
PlausibleHalf(byte) == byte # 255 /\ 0 < byte /\ byte < 200

(* The stored sensor holds byte / 2. *)
HoldsHalf(name, byte) ==
    /\ name \in DOMAIN sensors
    /\ 2 * sensors[name].value.num = byte * sensors[name].value.den

(* C26: after a B5 11 telegram with query byte 1 and a response of at      *)
(* least 6 bytes went through TheliaParser.parse and DataAggregator.update *)
(* boiler.flow_temperature is resp[0] / 2 and boiler.return_temperature is *)
(* resp[1] / 2, for plausible bytes.                                       *)
C26_EndToEndStatus ==
    HandedStatusType1
        => /\ PlausibleHalf(handed[1].response_data[1][1])
                  => HoldsHalf("boiler.flow_temperature",
                               handed[1].response_data[1][1])
           /\ PlausibleHalf(handed[1].response_data[1][2])
                  => HoldsHalf("boiler.return_temperature",
                               handed[1].response_data[1][2])

(* The key of an alert, as line 229 builds it for the alert's rule. *)
KeyOf(alert) == << alert.alert_type, "_", alert.severity >>

(* Every subscriber of the parser was called for the message returned. *)
ParserSubscribersServed ==
    (handed # None /\ raised = None) => (message # None /\ AllNotified)

(* For every alert check_sensors returned, in order, every subscriber was  *)
(* called once, in registration order.                                     *)
AlertSubscribersServed ==
    /\ Len(alert_notified) = Len(new_alerts) * Len(alert_callbacks)
    /\ \A k \in 1..Len(new_alerts) : \A i \in 1..Len(alert_callbacks) :
           /\ alert_notified[(k - 1) * Len(alert_callbacks) + i].alert
                  = KeyOf(new_alerts[k])
           /\ alert_notified[(k - 1) * Len(alert_callbacks) + i].callback = i

(* C22: a subscriber that raises does not stop the remaining subscribers   *)
(* of TheliaParser or AlertManager from being called, in registration      *)
(* order, for the same event, the parse or check call still returns its    *)
(* result, and later events reach all subscribers again.                   *)
C22_CallbackIsolation == ParserSubscribersServed /\ AlertSubscribersServed

C22_Witness ==
    /\ stats.total = 2
    /\ message # None
    /\ Len(notified) = 2
    /\ notified[1].raised
    /\ calls = 2
    /\ Len(new_alerts) >= 1
    /\ Len(alert_notified) = 2 * Len(new_alerts)
    /\ alert_notified[1].raised

(* The rules of the manager. *)
Rules == { default_thresholds[i] : i \in 1..Len(default_thresholds) }

(* The sensor of the rule is among the readings of the last check_sensors  *)
(* call and the rule's condition, as lines 219-225 test it, holds or not.  *)
RuleSeen(rule) ==
    checked # None /\ rule.sensor_name \in DOMAIN checked[1].sensors

RuleHolds(rule) ==
    \/ MinTriggered(rule, checked[1].sensors[rule.sensor_name].value)
    \/ MaxTriggered(rule, checked[1].sensors[rule.sensor_name].value)

(* C27: after a check_sensors call in which a rule's sensor is present and *)
(* the rule's condition does not hold, get_active_alerts holds no alert of *)
(* that rule key, whether or not the cooldown has elapsed.                 *)
C27_AlertCleared ==
    \A rule \in Rules :
        (RuleSeen(rule) /\ ~ RuleHolds(rule))
            => \A alert \in get_active_alerts(active_alerts) :
                   KeyOf(alert) # alert_key(rule)

(* The alerts of that key among those a call returned or announced. *)
EmittedFor(key, alerts, announced) ==
    \/ \E k \in 1..Len(alerts) : KeyOf(alerts[k]) = key
    \/ \E k \in 1..Len(announced) : announced[k].alert = key

(* C28: a check_sensors call that finds an alert of a rule key already in  *)
(* the active set, and the rule's condition still holding, creates no new  *)
(* alert and notifies no callback for that key, however long the condition *)
(* has lasted.                                                             *)
C28_NoReemissionWhileActive ==
    [][ calls' = calls + 1
          => \A rule \in Rules :
                 ( /\ alert_key(rule) \in DOMAIN active_alerts
                   /\ RuleSeen(rule)'
                   /\ RuleHolds(rule)' )
                     => ~ EmittedFor(alert_key(rule), new_alerts',
                                     alert_notified') ]_vars

(* C29: two alerts emitted for the same rule key are separated by at least *)
(* the rule's cooldown_seconds.                                            *)
C29_CooldownThrottling ==
    \A i \in 1..Len(alert_history) : \A j \in (i + 1)..Len(alert_history) :
        \A rule \in Rules :
            ( /\ KeyOf(alert_history[i]) = alert_key(rule)
              /\ KeyOf(alert_history[j]) = alert_key(rule) )
                => alert_history[j].timestamp - alert_history[i].timestamp
                       >= rule.cooldown_seconds

(* A second reading of 0.5 bar less than 600 s after the low-pressure      *)
(* warning was emitted: nothing is emitted for that rule, while the        *)
(* critical rule, 300 s after its alert, emits again.                      *)
C29_Witness ==
    /\ op = "check_sensors"
    /\ RuleSeen(default_thresholds[1])
    /\ RuleHolds(default_thresholds[1])
    /\ alert_key(default_thresholds[1]) \in DOMAIN last_alert_time
    /\ now - last_alert_time[alert_key(default_thresholds[1])] = 300
    /\ ~ EmittedFor(alert_key(default_thresholds[1]), new_alerts,
                    alert_notified)
    /\ \E i \in 1..Len(alert_history) : \E j \in (i + 1)..Len(alert_history) :
           KeyOf(alert_history[i]) = KeyOf(alert_history[j])

(* The last check_sensors call was given a pressure; it is below, or above, *)
(* a number of tenths of a bar.                                            *)
PressureSeen ==
    checked # None /\ "boiler.water_pressure" \in DOMAIN checked[1].sensors

PressureBelow(tenths) ==
    Less(checked[1].sensors["boiler.water_pressure"].value,
         Quotient(tenths, 10))

PressureAbove(tenths) ==
    Less(Quotient(tenths, 10),
         checked[1].sensors["boiler.water_pressure"].value)

Fired(alert_type, severity) ==
    \E k \in 1..Len(new_alerts) :
        KeyOf(new_alerts[k]) = << alert_type, "_", severity >>

(* C30: the default pressure rules are strict.  The low-pressure rules     *)
(* fire only for a pressure below 0.8 (warning) and below 0.5 (critical),  *)
(* the high-pressure rules only above 2.5 (warning) and above 3.0          *)
(* (critical), a reading equal to a bound fires nothing for that rule, and *)
(* a reading of 0.5 fires one alert.                                       *)
C30_StrictThresholds ==
    PressureSeen
        => /\ Fired("low_pressure", "warning") => PressureBelow(8)
           /\ Fired("low_pressure", "critical") => PressureBelow(5)
           /\ Fired("high_pressure", "warning") => PressureAbove(25)
           /\ Fired("high_pressure", "critical") => PressureAbove(30)
           /\ (~ PressureBelow(5) /\ ~ PressureAbove(5))
                  => Len(new_alerts) <= 1


-----------------------------------------------------------------------------
(* The staleness check behind the snapshot of the live monitor *)

(* A critical sensor that was stored and last updated more than 300 s ago. *)
StaleFor(name) ==
    name \in DOMAIN sensors /\ now - sensors[name].timestamp > 300

(* A SENSOR_STALE alert for the sensor was emitted less than 600 s ago,    *)
(* by this check or by an earlier one.                                     *)
StaleAnnounced(name) ==
    /\ stale_key(name) \in DOMAIN last_alert_time
    /\ now - last_alert_time[stale_key(name)] < 600

(* C31: when the alert check of the live monitor has run, every critical   *)
(* sensor (boiler.flow_temperature, boiler.water_pressure) whose last      *)
(* update is more than 300 s old has a SENSOR_STALE alert emitted by this  *)
(* check or within the 600 s before it.                                    *)
C31_StalenessReachable ==
    op = "monitor" =>
        \A i \in 1..Len(critical_sensors) :
            StaleFor(critical_sensors[i]) => StaleAnnounced(critical_sensors[i])


-----------------------------------------------------------------------------
(* The fault alert and the fault nibble of the status byte *)

(* The status byte of the check_fault_code call that has just returned. *)
FaultChecked == fault_alert[1].status_code

(* C37: when check_fault_code(s) has returned, _active_alerts holds a      *)
(* fault_code alert exactly when the low nibble of s is not 0, whatever    *)
(* calls came before.                                                      *)
C37_FaultTracksState ==
    op = "check_fault_code" =>
        ( fault_key \in DOMAIN active_alerts
            <=> fault_code_of(FaultChecked) # 0 )


-----------------------------------------------------------------------------
(* Snapshots taken while an update is under way *)

(* _sensors as an update call found or left it, and as the call under way  *)
(* will leave it.                                                          *)
UpdateBoundaries ==
    { committed[i] : i \in DOMAIN committed }
    \cup (IF writer = None THEN {} ELSE { writer[1].target })

(* C32: a get_all_sensors call that runs while update runs on another      *)
(* thread does not raise, and the snapshot it returns is the snapshot of   *)
(* _sensors as some update call found or left it: none or all of the       *)
(* writes of each update.                                                  *)
C32_SnapshotConsistency ==
    (op = "get_all_sensors" /\ got # None /\ "raised" \in DOMAIN got[1]) =>
        /\ got[1].raised = None
        /\ \E s \in UpdateBoundaries :
               got[1].result = get_all_sensors(s, max_age, now)

-----------------------------------------------------------------------------
(* Labels of enumerated fields *)

(* The label the values mapping of the field gives the byte at its offset. *)
LabelOf(f, byte) == Some(PyStr(<< f.values[byte] >>))

(* The bit of the field in the byte at its offset, as a bool. *)
BitOf(f, byte) == Some(PyBool((byte \div (2 ^ f.bit_position)) % 2 = 1))

(* C38: a UINT8 field declared with a values mapping decodes to the label  *)
(* of its byte when the byte is a key of the mapping (error_state 1 gives  *)
(* "warning", manufacturer 0x41 gives "Saunier Duval") and to the number   *)
(* otherwise; a BIT field decodes to the bool of its bit, untouched by     *)
(* factor and offset_value.                                                *)
C38_EnumLabels ==
    DecodedAtOffset =>
        /\ (/\ field_def[1].data_type = "UINT8"
            /\ field_def[1].values # EmptyDict) =>
              IF RawByte \in DOMAIN field_def[1].values
              THEN decoded[1] = LabelOf(field_def[1], RawByte)
              ELSE IsNumber(decoded[1], RawByte, 1)
        /\ field_def[1].data_type = "BIT" =>
              decoded[1] = BitOf(field_def[1], RawByte)

-----------------------------------------------------------------------------
(* The counters of TheliaParser *)

(* C36: after any sequence of TheliaParser.parse calls, stats["total"] is  *)
(* the sum of stats["parsed"] and stats["unknown"].                        *)
C36_StatsInvariant == stats.total = stats.parsed + stats.unknown


-----------------------------------------------------------------------------
(* The legacy destuff helper against the frame codec *)

(* C39: for every byte sequence ebus_codec.destuff returns the bytes       *)
(* EscapeHandler.unescape returns; it keeps a 0xA9 followed by a byte      *)
(* other than 0x00 and 0x01, the byte after it, and a 0xA9 that ends the   *)
(* input.                                                                  *)
C39_DestuffAgrees ==
    (destuff_out # None /\ unescape_out # None) => destuff_out = unescape_out

=============================================================================
